---------------------------- MODULE Spec2Model ----------------------------
(***************************************************************************)
(* Grouping engine of pandas: factorization of key sequences into dense   *)
(* labels (group_labels, group_labels2, the khash-backed HashTable        *)
(* classes), the counting-sort indexer (groupsort_indexer) and the        *)
(* per-group aggregators (group_add, group_mean, group_var); roll_median  *)
(* over its skip list; duplicated; and the range generators and counters  *)
(* of datetime.pyx.                                                        *)
(*                                                                         *)
(* Arrays are sequences indexed from 1; position i of the code is         *)
(* position i + 1 here.  The values stored in arrays (labels, positions   *)
(* written by groupsort_indexer) are the code's 0-based values.           *)
(***************************************************************************)
EXTENDS Integers, Sequences, FiniteSets, TLC

VARIABLES
    call,     \* the last function or method called, its arguments and what it returned
    table,    \* the kh_*_t table owned by the HashTable instance in use
    tkind,    \* the class of that instance: "none", "str", "int64" or "pyobject"
    ncalls,   \* number of methods called on that instance since its construction
    agg,      \* the aggregators: the caller's out and counts buffers
    roll,     \* the last roll_median call, its arguments and what it did
    skl,      \* a skip list, the last operations on it, and the run of sl_test
    rng       \* the last range generated or counted, and its arguments

vars == <<call, table, tkind, ncalls, agg, roll, skl, rng>>

-----------------------------------------------------------------------------
(* Bounds of the model *)

\* keys are 1..NumKeys
NumKeys == 3
\* longest key or label array given to a module-level function
MaxLen == 5
\* largest ngroups given to groupsort_indexer on its own
MaxGroups == 3
\* longest array given to a method of a HashTable instance
MaxTLen == 3
\* number of method calls followed on one HashTable instance, and of
\* aggregator calls followed on one pair of out and counts buffers
MaxCalls == 2
\* number of operations followed on one table operated on call by call
MaxOps == 4
\* longest array given to lookup_locations
MaxQLen == 2
\* number of years the start dates are taken from
MaxYears == 1
\* latest day of the month among the start dates
MaxDay == 3
\* largest periods given to a range generator
MaxPeriods == 3
\* largest stride given to a range function
MaxStride == 2
\* largest number of days between the start and the end of a counted range
MaxSpan == 62
\* longest values and labels arrays given to the aggregators
MaxAggLen == 3
\* largest number of groups given to the aggregators
MaxAggGroups == 2
\* longest array given to roll_median
MaxRollLen == 3
\* largest window given to roll_median
MaxWin == 3
\* largest capacity of a skip list operated on directly
MaxCap == 2
\* largest number of values held by that skip list
MaxSlSize == 3
\* number of values sl_test is followed over
SlTestN == 22

-----------------------------------------------------------------------------
(* Values *)

\* the floating-point NaN (also the missing object key): the one value v
\* for which the code's test  v != v  is true
NaN == -1000

Keys == 1..NumKeys
ObjKeys == Keys \cup {NaN}

\* val != val
IsMissing(val) == val = NaN

SeqsUpTo(S, n) == UNION {[1..k -> S] : k \in 0..n}

\* a Python dict with no entry
EmptyDict == [k \in {} |-> 0]
\* d[k] = v
DictSet(d, k, v) == [x \in (DOMAIN d) \cup {k} |-> IF x = k THEN v ELSE d[x]]

\* np.empty(n): n cells holding whatever the allocator left there (g)
np_empty(n, g) == [i \in 1..n |-> g]
\* np.zeros(n)
np_zeros(n) == [i \in 1..n |-> 0]
\* what an uninitialised int32 cell may hold
Garbage == {0, 7}

-----------------------------------------------------------------------------
(* group_labels, group_labels2 *)

\* group_labels_step with the increment of counts[idx] left out
group_labels_step_nocount(st, values, i) ==
    LET val == values[i] IN
    IF IsMissing(val)
    THEN [st EXCEPT !.labels[i] = -1]
    ELSE IF val \in DOMAIN st.ids
    THEN [st EXCEPT !.labels[i] = st.ids[val]]
    ELSE [st EXCEPT !.ids = DictSet(st.ids, val, st.count),
                    !.reverse = DictSet(st.reverse, st.count, val),
                    !.labels[i] = st.count,
                    !.counts[st.count + 1] = 1,
                    !.count = st.count + 1]

\* one iteration of the loop of group_labels at position i, on the loop
\* state st = [ids, reverse, labels, counts, count]
group_labels_step(st, values, i) ==
    LET val == values[i] IN
    IF IsMissing(val)
    THEN [st EXCEPT !.labels[i] = -1]
    ELSE IF val \in DOMAIN st.ids
    THEN LET idx == st.ids[val] IN
         [st EXCEPT !.labels[i] = idx,
                    !.counts[idx + 1] = st.counts[idx + 1] + 1]
    ELSE [st EXCEPT !.ids = DictSet(st.ids, val, st.count),
                    !.reverse = DictSet(st.reverse, st.count, val),
                    !.labels[i] = st.count,
                    !.counts[st.count + 1] = 1,
                    !.count = st.count + 1]

RECURSIVE group_labels_loop(_, _, _)
group_labels_loop(st, values, i) ==
    IF i > Len(values) THEN st
    ELSE group_labels_loop(group_labels_step(st, values, i), values, i + 1)

\* group_labels(values): returns reverse, labels, counts[:count]
group_labels(values, g) ==
    LET n == Len(values)
        st0 == [ids |-> EmptyDict, reverse |-> EmptyDict,
                labels |-> np_empty(n, g), counts |-> np_empty(n, g),
                count |-> 0]
        st == group_labels_loop(st0, values, 1)
    IN [reverse |-> st.reverse, labels |-> st.labels,
        counts |-> SubSeq(st.counts, 1, st.count)]

\* one iteration of the loop of group_labels2 (no counts array)
group_labels2_step(st, values, i) ==
    LET val == values[i] IN
    IF IsMissing(val)
    THEN [st EXCEPT !.labels[i] = -1]
    ELSE IF val \in DOMAIN st.ids
    THEN [st EXCEPT !.labels[i] = st.ids[val]]
    ELSE [st EXCEPT !.ids = DictSet(st.ids, val, st.count),
                    !.reverse = DictSet(st.reverse, st.count, val),
                    !.labels[i] = st.count,
                    !.count = st.count + 1]

RECURSIVE group_labels2_loop(_, _, _)
group_labels2_loop(st, values, i) ==
    IF i > Len(values) THEN st
    ELSE group_labels2_loop(group_labels2_step(st, values, i), values, i + 1)

\* group_labels2(values): returns reverse, labels
group_labels2(values, g) ==
    LET n == Len(values)
        st0 == [ids |-> EmptyDict, reverse |-> EmptyDict,
                labels |-> np_empty(n, g), count |-> 0]
        st == group_labels2_loop(st0, values, 1)
    IN [reverse |-> st.reverse, labels |-> st.labels, counts |-> <<>>]

-----------------------------------------------------------------------------
(* groupsort_indexer *)

\* first loop: counts[index[i] + 1] += 1   (counts is 0-based, size ngroups+1)
RECURSIVE groupsort_count(_, _, _)
groupsort_count(counts, index, i) ==
    IF i > Len(index) THEN counts
    ELSE groupsort_count(
             [counts EXCEPT ![index[i] + 1] = counts[index[i] + 1] + 1],
             index, i + 1)

\* groupsort_where adding the count of bucket i instead of bucket i - 1
RECURSIVE groupsort_where_shifted(_, _, _, _)
groupsort_where_shifted(where, counts, ngroups, i) ==
    IF i >= ngroups + 1 THEN where
    ELSE groupsort_where_shifted(
             [where EXCEPT ![i] = where[i - 1] + counts[i]],
             counts, ngroups, i + 1)

\* second loop: where[i] = where[i - 1] + counts[i - 1] for 1 <= i < ngroups+1
RECURSIVE groupsort_where(_, _, _, _)
groupsort_where(where, counts, ngroups, i) ==
    IF i >= ngroups + 1 THEN where
    ELSE groupsort_where(
             [where EXCEPT ![i] = where[i - 1] + counts[i - 1]],
             counts, ngroups, i + 1)

\* groupsort_place running over the positions from the last to the first
RECURSIVE groupsort_place_backwards(_, _, _)
groupsort_place_backwards(st, index, i) ==
    IF i > Len(index) THEN st
    ELSE LET pos == Len(index) - i + 1
             label == index[pos] + 1
         IN groupsort_place_backwards(
                [where |-> [st.where EXCEPT ![label] = st.where[label] + 1],
                 result |-> [st.result EXCEPT ![st.where[label] + 1] = pos - 1]],
                index, i + 1)

\* third loop: result[where[label]] = i; where[label] += 1.  st = [where, result];
\* the position written is the code's 0-based i, the slot is where[label] + 1.
RECURSIVE groupsort_place(_, _, _)
groupsort_place(st, index, i) ==
    IF i > Len(index) THEN st
    ELSE LET label == index[i] + 1 IN
         groupsort_place(
             [where |-> [st.where EXCEPT ![label] = st.where[label] + 1],
              result |-> [st.result EXCEPT ![st.where[label] + 1] = i - 1]],
             index, i + 1)

groupsort_indexer(index, ngroups) ==
    LET n == Len(index)
        counts == groupsort_count([k \in 0..ngroups |-> 0], index, 1)
        where == groupsort_where([k \in 0..ngroups |-> 0], counts, ngroups, 1)
    IN groupsort_place([where |-> where, result |-> np_zeros(n)], index, 1).result

-----------------------------------------------------------------------------
(* duplicated: the rows are hashable values compared by equality *)

\* one iteration of either loop of duplicated at position i (0-based), on
\* st = [seen, result]
duplicated_step(st, values, i) ==
    LET row == values[i + 1] IN
    IF row \in st.seen
    THEN [st EXCEPT !.result[i + 1] = 1]
    ELSE [seen |-> st.seen \cup {row},
          result |-> [st.result EXCEPT ![i + 1] = 0]]

\* for i from 0 <= i < n
RECURSIVE duplicated_forward_loop(_, _, _)
duplicated_forward_loop(st, values, i) ==
    IF i >= Len(values) THEN st
    ELSE duplicated_forward_loop(duplicated_step(st, values, i), values, i + 1)

\* for i from n > i >= 0
RECURSIVE duplicated_backward_loop(_, _, _)
duplicated_backward_loop(st, values, i) ==
    IF i < 0 THEN st
    ELSE duplicated_backward_loop(duplicated_step(st, values, i), values, i - 1)

\* result.view(np.bool_): a byte is True when it is not 0
view_bool(result) == [i \in 1..Len(result) |-> result[i] # 0]

\* duplicated that scans forward whatever take_last is
duplicated_forward(values, take_last) ==
    view_bool(duplicated_forward_loop(
                  [seen |-> {}, result |-> np_zeros(Len(values))],
                  values, 0).result)

\* duplicated(values, take_last)
duplicated(values, take_last) ==
    LET st0 == [seen |-> {}, result |-> np_zeros(Len(values))] IN
    view_bool(IF take_last
              THEN duplicated_backward_loop(st0, values, Len(values) - 1).result
              ELSE duplicated_forward_loop(st0, values, 0).result)

-----------------------------------------------------------------------------
(* khash: the open-addressing table behind the HashTable classes.  Buckets  *)
(* are numbered 0..n_buckets-1; each has a flag, a key and a payload.       *)

\* the upper-bound load factor, 0.77, as LoadNum / LoadDen
LoadNum == 77
LoadDen == 100

\* the bucket a key's probe starts from is hash(key) mod n_buckets
hash(key) == IF key = NaN THEN 0 ELSE key \div 2

\* smallest power of two p >= c / 0.77, searched upwards from p
RECURSIVE kh_roundup(_, _)
kh_roundup(p, c) ==
    IF p * LoadNum >= c * LoadDen THEN p ELSE kh_roundup(2 * p, c)

\* kh_init: a table with no bucket
kh_init ==
    [n_buckets |-> 0, size |-> 0, n_occupied |-> 0, upper_bound |-> 0,
     flags |-> <<>>, keys |-> <<>>, vals |-> <<>>]

\* the probe of get from bucket i, after step probes: skips deleted buckets
\* and other keys, stops at the first empty bucket or at the key
RECURSIVE kh_get_probe(_, _, _, _)
kh_get_probe(t, key, i, step) ==
    IF step >= t.n_buckets THEN t.n_buckets
    ELSE IF t.flags[i] = "empty" THEN t.n_buckets
    ELSE IF t.flags[i] = "live" /\ t.keys[i] = key THEN i
    ELSE kh_get_probe(t, key, (i + step + 1) % t.n_buckets, step + 1)

\* kh_get: the bucket of key, or n_buckets when the key is absent
kh_get(t, key) ==
    IF t.n_buckets = 0 THEN 0
    ELSE kh_get_probe(t, key, hash(key) % t.n_buckets, 0)

\* kh_exist: bucket k holds a live key
kh_exist(t, k) == k \in DOMAIN t.flags /\ t.flags[k] = "live"

\* the probe of put: site is the first deleted bucket seen (or n_buckets);
\* it is used only when the key is not found further on the probe path.
\* Returns the bucket to use and whether the key is already there.
RECURSIVE kh_put_probe(_, _, _, _, _)
kh_put_probe(t, key, i, step, site) ==
    IF step >= t.n_buckets THEN [k |-> site, found |-> FALSE]
    ELSE IF t.flags[i] = "empty"
    THEN [k |-> IF site = t.n_buckets THEN i ELSE site, found |-> FALSE]
    ELSE IF t.flags[i] = "live" /\ t.keys[i] = key
    THEN [k |-> i, found |-> TRUE]
    ELSE kh_put_probe(t, key, (i + step + 1) % t.n_buckets, step + 1,
                      IF t.flags[i] = "deleted" /\ site = t.n_buckets
                      THEN i ELSE site)

\* kh_put: returns the table, the bucket k of key and ret: 0 when the key
\* was already there, 1 when it went into an empty bucket, 2 when it went
\* into a deleted one.  put never resizes: a table with no free bucket on
\* the probe path is left as it is and n_buckets is returned.
kh_put(t, key) ==
    IF t.n_buckets = 0 THEN [t |-> t, k |-> 0, ret |-> 0]
    ELSE
    LET p == kh_put_probe(t, key, hash(key) % t.n_buckets, 0, t.n_buckets) IN
    IF p.found \/ p.k = t.n_buckets THEN [t |-> t, k |-> p.k, ret |-> 0]
    ELSE [t |-> [t EXCEPT !.keys[p.k] = key,
                          !.flags[p.k] = "live",
                          !.size = t.size + 1,
                          !.n_occupied = IF t.flags[p.k] = "empty"
                                         THEN t.n_occupied + 1
                                         ELSE t.n_occupied],
          k |-> p.k,
          ret |-> IF t.flags[p.k] = "empty" THEN 1 ELSE 2]

\* kh_del: bucket k becomes a tombstone
kh_del(t, k) ==
    IF kh_exist(t, k)
    THEN [t EXCEPT !.flags[k] = "deleted", !.size = t.size - 1]
    ELSE t

\* reinsert the live keys of old, buckets i.., into t (with their payloads)
RECURSIVE kh_rehash(_, _, _)
kh_rehash(t, old, i) ==
    IF i >= old.n_buckets THEN t
    ELSE IF old.flags[i] = "live"
    THEN LET p == kh_put(t, old.keys[i]) IN
         kh_rehash([p.t EXCEPT !.vals[p.k] = old.vals[i]], old, i + 1)
    ELSE kh_rehash(t, old, i + 1)

\* kh_resize: a strictly larger power-of-two bucket array, or no change
kh_resize(t, new_capacity) ==
    LET nb == kh_roundup(1, new_capacity) IN
    IF nb <= t.n_buckets THEN t
    ELSE kh_rehash([n_buckets |-> nb, size |-> 0, n_occupied |-> 0,
                    upper_bound |-> (nb * LoadNum) \div LoadDen,
                    flags |-> [b \in 0..(nb - 1) |-> "empty"],
                    keys |-> [b \in 0..(nb - 1) |-> 0],
                    vals |-> [b \in 0..(nb - 1) |-> 0]],
                   t, 0)

-----------------------------------------------------------------------------
(* The HashTable classes: StringHashTable, Int64HashTable,                  *)
(* PyObjectHashTable.  A method takes the instance's table t and returns    *)
(* the table it leaves behind with its result.                              *)

\* __init__(size_hint): kh_init, then kh_resize(table, size_hint)
HashTable_init(size_hint) == kh_resize(kh_init, size_hint)

\* get_item that answers 0 for an absent key instead of raising
HashTable_get_item_default(t, key) ==
    LET k == kh_get(t, key) IN
    IF k # t.n_buckets THEN [error |-> "none", value |-> t.vals[k]]
    ELSE [error |-> "none", value |-> 0]

\* get_item(key): k = kh_get(table, key); the payload of bucket k, or
\* KeyError when k is n_buckets
HashTable_get_item(t, key) ==
    LET k == kh_get(t, key) IN
    IF k # t.n_buckets THEN [error |-> "none", value |-> t.vals[k]]
    ELSE [error |-> "KeyError", value |-> 0]

\* set_item that grows the table before the put once n_occupied has reached
\* upper_bound
HashTable_set_item_grow(t, key, val) ==
    LET t0 == IF t.n_occupied >= t.upper_bound
              THEN kh_resize(t, t.n_buckets + 1) ELSE t
        p == kh_put(t0, key)
        t1 == IF p.k \in DOMAIN p.t.keys
              THEN [p.t EXCEPT !.keys[p.k] = key] ELSE p.t
    IN IF kh_exist(t1, p.k)
       THEN [t |-> [t1 EXCEPT !.vals[p.k] = val], error |-> "none"]
       ELSE [t |-> t1, error |-> "KeyError"]

\* set_item that deletes the bucket of a key the put found already there
\* (the "if not ret: kh_del" of factorize carried over)
HashTable_set_item_del(t, key, val) ==
    LET p == kh_put(t, key)
        t1 == IF p.ret = 0 THEN kh_del(p.t, p.k) ELSE p.t
    IN IF kh_exist(t1, p.k)
       THEN [t |-> [t1 EXCEPT !.keys[p.k] = key, !.vals[p.k] = val],
             error |-> "none"]
       ELSE [t |-> t1, error |-> "KeyError"]

\* set_item(key, val) of StringHashTable and Int64HashTable (the put, the
\* store of the key, then the payload when the bucket is live)
HashTable_set_item(t, key, val) ==
    LET p == kh_put(t, key)
        t1 == IF p.k \in DOMAIN p.t.keys
              THEN [p.t EXCEPT !.keys[p.k] = key] ELSE p.t
    IN IF kh_exist(t1, p.k)
       THEN [t |-> [t1 EXCEPT !.vals[p.k] = val], error |-> "none"]
       ELSE [t |-> t1, error |-> "KeyError"]

\* set_item(key, val) of PyObjectHashTable (the key is stored by the put only)
PyObjectHashTable_set_item(t, key, val) ==
    LET p == kh_put(t, key) IN
    IF kh_exist(p.t, p.k)
    THEN [t |-> [p.t EXCEPT !.vals[p.k] = val], error |-> "none"]
    ELSE [t |-> p.t, error |-> "KeyError"]

\* map_locations(values): put every value, payload = its position
RECURSIVE HashTable_map_locations(_, _, _)
HashTable_map_locations(t, values, i) ==
    IF i > Len(values) THEN t
    ELSE LET p == kh_put(t, values[i]) IN
         HashTable_map_locations(
             IF p.k \in DOMAIN p.t.vals
             THEN [p.t EXCEPT !.vals[p.k] = i - 1] ELSE p.t,
             values, i + 1)

\* lookup_locations(values): locs[i] is the payload of values[i], or -1
\* when the get misses
HashTable_lookup_locations(t, values) ==
    [i \in 1..Len(values) |->
        LET k == kh_get(t, values[i]) IN
        IF k # t.n_buckets THEN t.vals[k] ELSE -1]

\* HashTable_factorize_step with count += 1 left out after a new key
HashTable_factorize_step_stalecount(del_on_dup, st, values, i) ==
    LET val == values[i]
        k == kh_get(st.table, val)
    IN
    IF k # st.table.n_buckets
    THEN LET idx == st.table.vals[k] IN
         IF idx + 1 \in DOMAIN st.counts
         THEN [st EXCEPT !.labels[i] = idx,
                         !.counts[idx + 1] = st.counts[idx + 1] + 1]
         ELSE [st EXCEPT !.labels[i] = idx, !.oob = TRUE]
    ELSE LET p == kh_put(st.table, val)
             t1 == IF del_on_dup /\ p.ret = 0 THEN kh_del(p.t, p.k) ELSE p.t
             t2 == IF p.k \in DOMAIN t1.vals
                   THEN [t1 EXCEPT !.vals[p.k] = st.count] ELSE t1
         IN [st EXCEPT !.table = t2,
                       !.reverse = DictSet(st.reverse, st.count, val),
                       !.labels[i] = st.count,
                       !.counts[st.count + 1] = 1]

\* one iteration of the loop of factorize at position i, on the loop state
\* st = [table, reverse, labels, counts, count, oob].  del_on_dup is TRUE in
\* StringHashTable and Int64HashTable (if not ret: kh_del), FALSE in
\* PyObjectHashTable (the two lines are commented out).  counts has
\* len(values) cells and bounds checks are off: a write through a stored
\* label outside it lands in foreign memory, which sets oob and leaves the
\* arrays of this call as they are.
HashTable_factorize_step(del_on_dup, st, values, i) ==
    LET val == values[i]
        k == kh_get(st.table, val)
    IN
    IF k # st.table.n_buckets
    THEN LET idx == st.table.vals[k] IN
         IF idx + 1 \in DOMAIN st.counts
         THEN [st EXCEPT !.labels[i] = idx,
                         !.counts[idx + 1] = st.counts[idx + 1] + 1]
         ELSE [st EXCEPT !.labels[i] = idx, !.oob = TRUE]
    ELSE LET p == kh_put(st.table, val)
             t1 == IF del_on_dup /\ p.ret = 0 THEN kh_del(p.t, p.k) ELSE p.t
             t2 == IF p.k \in DOMAIN t1.vals
                   THEN [t1 EXCEPT !.vals[p.k] = st.count] ELSE t1
         IN [st EXCEPT !.table = t2,
                       !.reverse = DictSet(st.reverse, st.count, val),
                       !.labels[i] = st.count,
                       !.counts[st.count + 1] = 1,
                       !.count = st.count + 1]

RECURSIVE HashTable_factorize_loop(_, _, _, _)
HashTable_factorize_loop(del_on_dup, st, values, i) ==
    IF i > Len(values) THEN st
    ELSE HashTable_factorize_loop(
             del_on_dup,
             HashTable_factorize_step(del_on_dup, st, values, i),
             values, i + 1)

\* the body shared by the three factorize methods: returns reverse, labels,
\* counts[:count]
HashTable_factorize(del_on_dup, t, values, g) ==
    LET n == Len(values)
        st0 == [table |-> t, reverse |-> EmptyDict,
                labels |-> np_empty(n, g), counts |-> np_empty(n, g),
                count |-> 0, oob |-> FALSE]
        st == HashTable_factorize_loop(del_on_dup, st0, values, 1)
    IN [t |-> st.table, reverse |-> st.reverse, labels |-> st.labels,
        counts |-> SubSeq(st.counts, 1, st.count), oob |-> st.oob]

StringHashTable_factorize(t, values, g) ==
    HashTable_factorize(TRUE, t, values, g)

Int64HashTable_factorize(t, values, g) ==
    HashTable_factorize(TRUE, t, values, g)

PyObjectHashTable_factorize(t, values, g) ==
    HashTable_factorize(FALSE, t, values, g)

\* PyObjectHashTable_unique_loop appending a key whether or not the table
\* holds it already
RECURSIVE PyObjectHashTable_unique_loop_always(_, _, _)
PyObjectHashTable_unique_loop_always(st, values, i) ==
    IF i > Len(values) THEN st
    ELSE LET val == values[i] IN
         PyObjectHashTable_unique_loop_always(
             [table |-> kh_put(st.table, val).t,
              uniques |-> Append(st.uniques, val)],
             values, i + 1)

\* PyObjectHashTable.unique: st = [table, uniques]
RECURSIVE PyObjectHashTable_unique_loop(_, _, _)
PyObjectHashTable_unique_loop(st, values, i) ==
    IF i > Len(values) THEN st
    ELSE LET val == values[i]
             k == kh_get(st.table, val)
         IN PyObjectHashTable_unique_loop(
                IF k = st.table.n_buckets
                THEN [table |-> kh_put(st.table, val).t,
                      uniques |-> Append(st.uniques, val)]
                ELSE st,
                values, i + 1)

PyObjectHashTable_unique(t, values) ==
    LET st == PyObjectHashTable_unique_loop([table |-> t, uniques |-> <<>>],
                                            values, 1)
    IN [t |-> st.table, uniques |-> st.uniques]

\* np.sort of a one-dimensional array: ascending
RECURSIVE np_sort(_)
np_sort(a) ==
    IF Len(a) <= 1 THEN a
    ELSE LET m == CHOOSE i \in 1..Len(a) :
                      /\ \A j \in 1..Len(a) : a[i] <= a[j]
                      /\ \A j \in 1..(i - 1) : a[j] # a[i]
         IN <<a[m]>> \o np_sort(SubSeq(a, 1, m - 1) \o SubSeq(a, m + 1, Len(a)))

\* the loop of int64_unique: st = [table, uniques, j]
RECURSIVE int64_unique_loop(_, _, _)
int64_unique_loop(st, arr, i) ==
    IF i > Len(arr) THEN st
    ELSE LET obj == arr[i]
             k == kh_get(st.table, obj)
         IN int64_unique_loop(
                IF ~ kh_exist(st.table, k)
                THEN [table |-> kh_put(st.table, obj).t,
                      uniques |-> [st.uniques EXCEPT ![st.j + 1] = obj],
                      j |-> st.j + 1]
                ELSE st,
                arr, i + 1)

\* int64_unique(arr): its own table, sized for len(arr); returns
\* np.sort(uniques[:j])
int64_unique(arr, g) ==
    LET n == Len(arr)
        st == int64_unique_loop([table |-> kh_resize(kh_init, n),
                                 uniques |-> np_empty(n, g), j |-> 0],
                                arr, 1)
    IN np_sort(SubSeq(st.uniques, 1, st.j))

-----------------------------------------------------------------------------
(* group_add, group_mean, group_var.  A float64 is an integer, NaN, or one *)
(* of the two infinities.  A float64 output is NaN or the quotient          *)
(* num / den, kept as the pair.                                             *)

FNaN == [nan |-> TRUE, num |-> 0, den |-> 1]
Float(num, den) == [nan |-> FALSE, num |-> num, den |-> den]

\* float64 +inf and -inf
PInf == 1000000
NInf == -1000000
IsInf(x) == x = PInf \/ x = NInf

\* float64 a + b: NaN propagates, inf + -inf is NaN
f_add(a, b) ==
    IF a = NaN \/ b = NaN THEN NaN
    ELSE IF IsInf(a) /\ IsInf(b) THEN (IF a = b THEN a ELSE NaN)
    ELSE IF IsInf(a) THEN a
    ELSE IF IsInf(b) THEN b
    ELSE a + b

\* float64 a * b: NaN propagates, inf * 0 is NaN
f_mul(a, b) ==
    IF a = NaN \/ b = NaN THEN NaN
    ELSE IF IsInf(a) \/ IsInf(b)
    THEN (IF a = 0 \/ b = 0 THEN NaN
          ELSE IF (a > 0) = (b > 0) THEN PInf ELSE NInf)
    ELSE a * b

\* float64 a - b
f_sub(a, b) == f_add(a, IF b = NaN THEN NaN ELSE 0 - b)

\* float64 num / den for a finite den > 0
f_div(num, den) ==
    IF num = NaN THEN FNaN
    ELSE IF IsInf(num) THEN Float(num, 1)
    ELSE Float(num, den)

\* group_accumulate_step without the test lab < 0: a negative label
\* indexes the arrays from their end
group_accumulate_step_wrap(st, values, labels, i) ==
    LET lab == IF labels[i] < 0 THEN Len(st.counts) + labels[i] ELSE labels[i]
        val == values[i]
    IN
    IF ~ IsMissing(val)
    THEN [st EXCEPT !.counts[lab + 1] = st.counts[lab + 1] + 1,
                    !.nobs[lab + 1] = st.nobs[lab + 1] + 1,
                    !.sumx[lab + 1] = f_add(st.sumx[lab + 1], val),
                    !.sumxx[lab + 1] = f_add(st.sumxx[lab + 1], f_mul(val, val))]
    ELSE [st EXCEPT !.counts[lab + 1] = st.counts[lab + 1] + 1]

\* one iteration of the first loop of group_add / group_mean / group_var on
\* st = [counts, nobs, sumx, sumxx] (sumxx is kept by group_var only; the
\* cells of group lab are at lab + 1)
group_accumulate_step(st, values, labels, i) ==
    LET lab == labels[i]
        val == values[i]
    IN
    IF lab < 0 THEN st
    ELSE IF ~ IsMissing(val)
    THEN [st EXCEPT !.counts[lab + 1] = st.counts[lab + 1] + 1,
                    !.nobs[lab + 1] = st.nobs[lab + 1] + 1,
                    !.sumx[lab + 1] = f_add(st.sumx[lab + 1], val),
                    !.sumxx[lab + 1] = f_add(st.sumxx[lab + 1], f_mul(val, val))]
    ELSE [st EXCEPT !.counts[lab + 1] = st.counts[lab + 1] + 1]

RECURSIVE group_accumulate_loop(_, _, _, _)
group_accumulate_loop(st, values, labels, i) ==
    IF i > Len(values) THEN st
    ELSE group_accumulate_loop(group_accumulate_step(st, values, labels, i),
                               values, labels, i + 1)

\* nobs = sumx = sumxx = np.zeros_like(out), then the first loop; counts is
\* the caller's array and is added to
group_accumulate(out, counts, values, labels) ==
    group_accumulate_loop([counts |-> counts,
                           nobs |-> np_zeros(Len(out)),
                           sumx |-> np_zeros(Len(out)),
                           sumxx |-> np_zeros(Len(out))],
                          values, labels, 1)

\* group_add: out[i] = nan if nobs[i] == 0 else sumx[i], for i < len(counts)
group_add(out, counts, values, labels) ==
    LET st == group_accumulate(out, counts, values, labels) IN
    [st EXCEPT !.sumxx = np_zeros(Len(out))] @@
    [out |-> [i \in 1..Len(counts) |->
                 IF st.nobs[i] = 0 THEN FNaN ELSE f_div(st.sumx[i], 1)]]

\* group_mean dividing by the element count counts[i], NaN observations
\* included, instead of nobs[i]
group_mean_bycounts(out, counts, values, labels) ==
    LET st == group_accumulate(out, counts, values, labels) IN
    [st EXCEPT !.sumxx = np_zeros(Len(out))] @@
    [out |-> [i \in 1..Len(counts) |->
                 IF st.nobs[i] = 0 THEN FNaN
                 ELSE f_div(st.sumx[i], st.counts[i])]]

\* group_mean: out[i] = nan if nobs[i] == 0 else sumx[i] / nobs[i]
group_mean(out, counts, values, labels) ==
    LET st == group_accumulate(out, counts, values, labels) IN
    [st EXCEPT !.sumxx = np_zeros(Len(out))] @@
    [out |-> [i \in 1..Len(counts) |->
                 IF st.nobs[i] = 0 THEN FNaN
                 ELSE f_div(st.sumx[i], st.nobs[i])]]

\* group_var with the divisor ct * ct of the population variance
group_var_population(out, counts, values, labels) ==
    LET st == group_accumulate(out, counts, values, labels) IN
    st @@
    [out |-> [i \in 1..Len(counts) |->
                 LET ct == st.nobs[i] IN
                 IF ct < 2 THEN FNaN
                 ELSE f_div(f_sub(f_mul(ct, st.sumxx[i]),
                                  f_mul(st.sumx[i], st.sumx[i])),
                            ct * ct)]]

\* group_var: out[i] = nan if ct < 2 else
\* (ct * sumxx[i] - sumx[i] * sumx[i]) / (ct * ct - ct), with ct = nobs[i]
group_var(out, counts, values, labels) ==
    LET st == group_accumulate(out, counts, values, labels) IN
    st @@
    [out |-> [i \in 1..Len(counts) |->
                 LET ct == st.nobs[i] IN
                 IF ct < 2 THEN FNaN
                 ELSE f_div(f_sub(f_mul(ct, st.sumxx[i]),
                                  f_mul(st.sumx[i], st.sumx[i])),
                            ct * ct - ct)]]

-----------------------------------------------------------------------------
(* The indexable skip list of skiplist.h.  Its nodes are kept in list order: *)
(* node p (1..size) has the value vals[p], takes part in the levels          *)
(* 1..hts[p] and stores one width per level, wd[p][l]; the head is node 0,   *)
(* of full height, with the widths hw; NIL is node size + 1.  The forward    *)
(* pointer of node p at level l leads to the next node of height >= l.       *)

\* floor(log2(c)) for c >= 1
RECURSIVE Log2(_)
Log2(c) == IF c < 2 THEN 0 ELSE 1 + Log2(c \div 2)

\* the number of levels of a list of the given capacity; a capacity below 1
\* leaves one level
sl_maxlevels(expected_size) == Log2(expected_size) + 1

\* skiplist_init(expected_size): the empty list; every head pointer leads to
\* NIL, one step away
skiplist_init(expected_size) ==
    [maxlevels |-> sl_maxlevels(expected_size),
     vals |-> <<>>, hts |-> <<>>, wd |-> <<>>,
     hw |-> [l \in 1..sl_maxlevels(expected_size) |-> 1]]

sl_size(sl) == Len(sl.vals)

\* the node the level-l pointer of node p leads to
sl_next(sl, p, l) ==
    LET later == {q \in (p + 1)..sl_size(sl) : sl.hts[q] >= l} IN
    IF later = {} THEN sl_size(sl) + 1
    ELSE CHOOSE q \in later : \A r \in later : q <= r

\* the width stored with the level-l pointer of node p
sl_width(sl, p, l) ==
    IF p = 0 THEN sl.hw[l]
    ELSE IF p > sl_size(sl) \/ l > sl.hts[p] THEN sl_size(sl) + 2
    ELSE sl.wd[p][l]

\* advance at level l from node p while the next value is <= value (< value
\* when strict), adding up the widths passed
RECURSIVE sl_advance(_, _, _, _, _, _)
sl_advance(sl, value, strict, l, p, steps) ==
    LET q == sl_next(sl, p, l) IN
    IF /\ q <= sl_size(sl)
       /\ IF strict THEN sl.vals[q] < value ELSE sl.vals[q] <= value
    THEN sl_advance(sl, value, strict, l, q, steps + sl_width(sl, p, l))
    ELSE [node |-> p, steps |-> steps]

\* the downward walk from node p at level l: chain[j], for each level j <= l,
\* is the last node reached at level j and the steps made at that level
RECURSIVE sl_chain(_, _, _, _, _)
sl_chain(sl, value, strict, l, p) ==
    IF l = 0 THEN <<>>
    ELSE LET a == sl_advance(sl, value, strict, l, p, 0) IN
         Append(sl_chain(sl, value, strict, l - 1, a.node), a)

\* the steps made below level l
RECURSIVE sl_steps_below(_, _)
sl_steps_below(chain, l) ==
    IF l <= 1 THEN 0
    ELSE sl_steps_below(chain, l - 1) + chain[l - 1].steps

\* a with x put in at position q
InsertAt(a, q, x) == SubSeq(a, 1, q - 1) \o <<x>> \o SubSeq(a, q, Len(a))

\* a without its element at position q
RemoveAt(a, q) == SubSeq(a, 1, q - 1) \o SubSeq(a, q + 1, Len(a))


\* the widths of node p after an insert of height d along chain
sl_widths_inserted(sl, chain, d, p) ==
    [l \in 1..(IF p = 0 THEN sl.maxlevels ELSE sl.hts[p]) |->
        IF chain[l].node # p THEN sl_width(sl, p, l)
        ELSE IF l <= d THEN sl_steps_below(chain, l) + 1
        ELSE sl_width(sl, p, l) + 1]

\* skiplist_insert(sl, value) with the node height drawn for it: walk down
\* advancing while the next value is <= value, splice the new node in after
\* the chain at the levels up to its height, and add 1 to the widths of the
\* chain above it
skiplist_insert(sl, value, height) ==
    LET d == IF height > sl.maxlevels THEN sl.maxlevels ELSE height
        chain == sl_chain(sl, value, FALSE, sl.maxlevels, 0)
        q == chain[1].node + 1
        fresh == [l \in 1..d |-> sl_width(sl, chain[l].node, l)
                                    - sl_steps_below(chain, l)]
    IN [sl EXCEPT !.vals = InsertAt(sl.vals, q, value),
                  !.hts = InsertAt(sl.hts, q, d),
                  !.wd = InsertAt([p \in 1..sl_size(sl) |->
                                      sl_widths_inserted(sl, chain, d, p)],
                                  q, fresh),
                  !.hw = sl_widths_inserted(sl, chain, d, 0)]

\* the widths of node p after the removal of node t along chain
sl_widths_removed(sl, chain, t, p) ==
    [l \in 1..(IF p = 0 THEN sl.maxlevels ELSE sl.hts[p]) |->
        IF chain[l].node # p THEN sl_width(sl, p, l)
        ELSE IF l <= sl.hts[t] THEN sl_width(sl, p, l) + sl.wd[t][l] - 1
        ELSE sl_width(sl, p, l) - 1]

\* skiplist_remove whose walk also passes the nodes equal to value, so that
\* the node after the chain is never the one looked for
skiplist_remove_after(sl, value) ==
    LET chain == sl_chain(sl, value, FALSE, sl.maxlevels, 0)
        t == chain[1].node + 1
    IN IF t > sl_size(sl) \/ sl.vals[t] # value THEN sl
       ELSE [sl EXCEPT !.vals = RemoveAt(sl.vals, t),
                       !.hts = RemoveAt(sl.hts, t),
                       !.wd = RemoveAt([p \in 1..sl_size(sl) |->
                                           sl_widths_removed(sl, chain, t, p)], t),
                       !.hw = sl_widths_removed(sl, chain, t, 0)]

\* skiplist_remove(sl, value): walk down advancing while the next value is
\* < value; the node after the chain is unspliced when it holds value, and
\* nothing happens when it does not
skiplist_remove(sl, value) ==
    LET chain == sl_chain(sl, value, TRUE, sl.maxlevels, 0)
        t == chain[1].node + 1
    IN IF t > sl_size(sl) \/ sl.vals[t] # value THEN sl
       ELSE [sl EXCEPT !.vals = RemoveAt(sl.vals, t),
                       !.hts = RemoveAt(sl.hts, t),
                       !.wd = RemoveAt([p \in 1..sl_size(sl) |->
                                           sl_widths_removed(sl, chain, t, p)], t),
                       !.hw = sl_widths_removed(sl, chain, t, 0)]

\* the walk of skiplist_get: from node p at level l with i steps left, take
\* every pointer whose width is <= i
RECURSIVE sl_get_walk(_, _, _, _)
sl_get_walk(sl, l, p, i) ==
    IF l = 0 THEN p
    ELSE IF sl_width(sl, p, l) <= i
    THEN sl_get_walk(sl, l, sl_next(sl, p, l), i - sl_width(sl, p, l))
    ELSE sl_get_walk(sl, l - 1, p, i)

\* skiplist_get(sl, i, &ret): ret = 0 when i is out of range, else ret = 1
\* and the value of the node i + 1 steps from the head
skiplist_get(sl, i) ==
    IF i < 0 \/ i >= sl_size(sl) THEN [ret |-> 0, value |-> 0]
    ELSE LET p == sl_get_walk(sl, sl.maxlevels, 0, i + 1) IN
         IF p \in 1..sl_size(sl) THEN [ret |-> 1, value |-> sl.vals[p]]
         ELSE [ret |-> 1, value |-> NaN]

-----------------------------------------------------------------------------
(* roll_median.  i is the code's 0-based position; arg[i] of the code is    *)
(* arg[i + 1] here.                                                          *)

\* a cell of np.empty(N, dtype=float) that has not been written
Unwritten == [nan |-> FALSE, num |-> 0, den |-> 0]

\* float64 x / 2 for an integer x
f_half(x) == IF x % 2 = 0 THEN Float(x \div 2, 1) ELSE Float(x, 2)

\* _check_minp that leaves a minp of 0 as it is
_check_minp_keepzero(minp, N) ==
    IF minp > N THEN [error |-> "none", minp |-> N + 1]
    ELSE IF minp < 0 THEN [error |-> "ValueError", minp |-> minp]
    ELSE [error |-> "none", minp |-> minp]

\* _check_minp(minp, N)
_check_minp(minp, N) ==
    IF minp > N THEN [error |-> "none", minp |-> N + 1]
    ELSE IF minp = 0 THEN [error |-> "none", minp |-> 1]
    ELSE IF minp < 0 THEN [error |-> "ValueError", minp |-> minp]
    ELSE [error |-> "none", minp |-> minp]

\* one iteration of the first loop: 0 <= i < minp - 1
roll_median_head_step(st, arg, heights, i) ==
    LET val == arg[i + 1]
        s1 == IF ~ IsMissing(val)
              THEN [st EXCEPT !.nobs = st.nobs + 1,
                              !.sl = skiplist_insert(st.sl, val, heights[i + 1]),
                              !.ninsert = st.ninsert + 1]
              ELSE st
    IN [s1 EXCEPT !.output[i + 1] = FNaN,
                  !.maxsize = IF sl_size(s1.sl) > st.maxsize
                              THEN sl_size(s1.sl) ELSE st.maxsize]

RECURSIVE roll_median_head(_, _, _, _, _)
roll_median_head(st, arg, heights, minp, i) ==
    IF i >= minp - 1 THEN st
    ELSE roll_median_head(roll_median_head_step(st, arg, heights, i),
                          arg, heights, minp, i + 1)

\* the median read from the list of st: one skiplist_get for an odd nobs,
\* the mean of two for an even nobs
roll_median_res(st) ==
    LET midpoint == st.nobs \div 2 IN
    IF st.nobs % 2 = 1
    THEN Float(skiplist_get(st.sl, midpoint).value, 1)
    ELSE f_half(skiplist_get(st.sl, midpoint).value
                + skiplist_get(st.sl, midpoint - 1).value)

\* roll_median_step that drops arg[i - win] only once i > win, one
\* position late
roll_median_step_late(st, arg, win, minp, heights, g, i) ==
    LET val == arg[i + 1]
        prev == IF i - win < Len(arg) THEN arg[i - win + 1] ELSE g
        s1 == IF i > win /\ ~ IsMissing(prev)
              THEN [st EXCEPT !.sl = skiplist_remove(st.sl, prev),
                              !.nobs = st.nobs - 1,
                              !.nremove = st.nremove + 1]
              ELSE st
        s2 == IF ~ IsMissing(val)
              THEN [s1 EXCEPT !.nobs = s1.nobs + 1,
                              !.sl = skiplist_insert(s1.sl, val, heights[i + 1]),
                              !.ninsert = s1.ninsert + 1]
              ELSE s1
    IN [s2 EXCEPT !.output[i + 1] = IF s2.nobs >= minp THEN roll_median_res(s2)
                                    ELSE FNaN,
                  !.nselect = IF s2.nobs < minp THEN s2.nselect
                              ELSE IF s2.nobs % 2 = 1 THEN s2.nselect + 1
                              ELSE s2.nselect + 2,
                  !.maxsize = IF sl_size(s2.sl) > st.maxsize
                              THEN sl_size(s2.sl) ELSE st.maxsize]

\* one iteration of the second loop: minp - 1 <= i < N.  arg[i - win] read
\* past the end of arg (win < 0; bounds are not checked) is the value g
roll_median_step(st, arg, win, minp, heights, g, i) ==
    LET val == arg[i + 1]
        prev == IF i - win < Len(arg) THEN arg[i - win + 1] ELSE g
        s1 == IF i > win - 1 /\ ~ IsMissing(prev)
              THEN [st EXCEPT !.sl = skiplist_remove(st.sl, prev),
                              !.nobs = st.nobs - 1,
                              !.nremove = st.nremove + 1]
              ELSE st
        s2 == IF ~ IsMissing(val)
              THEN [s1 EXCEPT !.nobs = s1.nobs + 1,
                              !.sl = skiplist_insert(s1.sl, val, heights[i + 1]),
                              !.ninsert = s1.ninsert + 1]
              ELSE s1
    IN [s2 EXCEPT !.output[i + 1] = IF s2.nobs >= minp THEN roll_median_res(s2)
                                    ELSE FNaN,
                  !.nselect = IF s2.nobs < minp THEN s2.nselect
                              ELSE IF s2.nobs % 2 = 1 THEN s2.nselect + 1
                              ELSE s2.nselect + 2,
                  !.maxsize = IF sl_size(s2.sl) > st.maxsize
                              THEN sl_size(s2.sl) ELSE st.maxsize]

RECURSIVE roll_median_tail(_, _, _, _, _, _, _)
roll_median_tail(st, arg, win, minp, heights, g, i) ==
    IF i >= Len(arg) THEN st
    ELSE roll_median_tail(roll_median_step(st, arg, win, minp, heights, g, i),
                          arg, win, minp, heights, g, i + 1)

\* roll_median(arg, win, minp), heights[i + 1] being the height drawn for the
\* node of arg[i]: what it returns or raises, the minp it worked with, and
\* what it did to its skip list
roll_median(arg, win, minp, heights, g) ==
    LET N == Len(arg)
        st0 == [sl |-> skiplist_init(win), nobs |-> 0,
                output |-> [i \in 1..N |-> Unwritten],
                ninsert |-> 0, nremove |-> 0, nselect |-> 0, maxsize |-> 0]
        chk == _check_minp(minp, N)
    IN IF chk.error # "none"
       THEN [st0 EXCEPT !.output = <<>>] @@ [error |-> chk.error, minp |-> chk.minp]
       ELSE roll_median_tail(roll_median_head(st0, arg, heights, chk.minp, 0),
                             arg, win, chk.minp, heights, g,
                             IF chk.minp - 1 > 0 THEN chk.minp - 1 ELSE 0)
            @@ [error |-> "none", minp |-> chk.minp]

\* the run of roll_median(arg, win, minp) position by position: tr[1] is the
\* state before the loops, tr[i + 2] the state after the iteration at
\* position i; the first loop runs the positions below minp - 1, the second
\* loop the others
RECURSIVE roll_median_trace(_, _, _, _, _, _)
roll_median_trace(tr, arg, win, minp, heights, g) ==
    IF Len(tr) - 1 >= Len(arg) THEN tr
    ELSE LET i == Len(tr) - 1
             st == tr[Len(tr)]
         IN roll_median_trace(
                Append(tr, IF i < minp - 1
                           THEN roll_median_head_step(st, arg, heights, i)
                           ELSE roll_median_step(st, arg, win, minp, heights,
                                                 g, i)),
                arg, win, minp, heights, g)

\* the states roll_median(arg, win, minp) goes through, with what
\* _check_minp made of minp
roll_median_run(arg, win, minp, heights, g) ==
    LET N == Len(arg)
        st0 == [sl |-> skiplist_init(win), nobs |-> 0,
                output |-> [i \in 1..N |-> Unwritten],
                ninsert |-> 0, nremove |-> 0, nselect |-> 0, maxsize |-> 0]
        chk == _check_minp(minp, N)
    IN IF chk.error # "none"
       THEN [error |-> chk.error, minp |-> chk.minp, trace |-> <<st0>>]
       ELSE [error |-> "none", minp |-> chk.minp,
             trace |-> roll_median_trace(<<st0>>, arg, win, chk.minp,
                                         heights, g)]

-----------------------------------------------------------------------------
(* sl_test: the sliding window of SlTestWindow values kept in a skip list *)

\* the width of the window of sl_test
SlTestWindow == 20

\* sorted(data): its k-th element is the value with fewer than k elements
\* below it and at least k elements not above it
sorted(data) ==
    [k \in 1..Len(data) |->
        CHOOSE v \in {data[j] : j \in 1..Len(data)} :
            /\ Cardinality({j \in 1..Len(data) : data[j] < v}) < k
            /\ Cardinality({j \in 1..Len(data) : data[j] <= v}) >= k]

\* a larger of two integers
Max(a, b) == IF a > b THEN a ELSE b

\* sl_test dropping arr[i - 21], one position too far back
sl_test_step_late(st, arr, heights) ==
    LET i == st.i
        s1 == skiplist_insert(st.sl, arr[i + 1], heights[i + 1])
        s2 == IF i >= SlTestWindow + 1
              THEN skiplist_remove(s1, arr[i - SlTestWindow]) ELSE s1
        data == SubSeq(arr, Max(i - (SlTestWindow - 1), 0) + 1, i + 1)
    IN [sl |-> s2, i |-> i + 1,
        printed |-> Append(st.printed,
                           [middle |-> skiplist_get(s2, Len(data) \div 2).value,
                            actual |-> sorted(data)[Len(data) \div 2 + 1]])]

\* one iteration of sl_test, at st.i: insert arr[i], remove arr[i - 20] once
\* i >= 20, print the list's middle and the middle of the sorted window
sl_test_step(st, arr, heights) ==
    LET i == st.i
        s1 == skiplist_insert(st.sl, arr[i + 1], heights[i + 1])
        s2 == IF i >= SlTestWindow
              THEN skiplist_remove(s1, arr[i - SlTestWindow + 1]) ELSE s1
        data == SubSeq(arr, Max(i - (SlTestWindow - 1), 0) + 1, i + 1)
    IN [sl |-> s2, i |-> i + 1,
        printed |-> Append(st.printed,
                           [middle |-> skiplist_get(s2, Len(data) \div 2).value,
                            actual |-> sorted(data)[Len(data) \div 2 + 1]])]

RECURSIVE sl_test_loop(_, _, _)
sl_test_loop(st, arr, heights) ==
    IF st.i >= Len(arr) THEN st
    ELSE sl_test_loop(sl_test_step(st, arr, heights), arr, heights)

\* sl_test() on the n values arr, heights[i + 1] being the height drawn for
\* the node of arr[i]
sl_test(arr, heights) ==
    sl_test_loop([sl |-> skiplist_init(Len(arr)), i |-> 0, printed |-> <<>>],
                 arr, heights)

-----------------------------------------------------------------------------
(* datetime.pyx: the range generators and the range counters.  A date is a *)
(* record [year, month, day]; a timestamp is counted in days since         *)
(* 1970-01-01 (us_in_day is the unit), so that a day offset is added as it *)
(* is.  The day of the week is 0 for Monday .. 6 for Sunday.               *)

\* is_leapyear(year): 1 in a leap year of the Gregorian calendar, else 0
is_leapyear(year) ==
    IF (year % 4 = 0 /\ year % 100 # 0) \/ year % 400 = 0 THEN 1 ELSE 0

\* _days_per_month_table[ly][m]: row ly + 1, column m + 1 here
_days_per_month_table ==
    << <<31, 28, 31, 30, 31, 30, 31, 31, 30, 31, 30, 31>>,
       <<31, 29, 31, 30, 31, 30, 31, 31, 30, 31, 30, 31>> >>

\* the number of days from 0000-03-01 to the date y-m-d
days_from_civil(y, m, d) ==
    LET yy == IF m <= 2 THEN y - 1 ELSE y
        mp == IF m > 2 THEN m - 3 ELSE m + 9
    IN 365 * yy + (yy \div 4) - (yy \div 100) + (yy \div 400)
       + ((153 * mp + 2) \div 5) + d - 1

\* dayofweek(y, m, d)
dayofweek(y, m, d) == (days_from_civil(y, m, d) + 2) % 7

\* convert_to_tsobject(start): the timestamp value and the date fields
convert_to_tsobject(date) ==
    [value |-> days_from_civil(date.year, date.month, date.day) - 719468,
     dtval |-> date]

\* ts_dayofweek(ts)
ts_dayofweek(ts) == dayofweek(ts.dtval.year, ts.dtval.month, ts.dtval.day)

\* weekend_adjustment(dow, bkwd): the days to roll off a Saturday or Sunday
weekend_adjustment(dow, bkwd) ==
    IF dow > 4
    THEN IF bkwd THEN 4 - dow ELSE 7 - dow
    ELSE 0

\* the inner loop of generate_monthly_range, for j in range(0, stride), on
\* st = [m, y, ly, days]
RECURSIVE generate_monthly_days(_, _, _)
generate_monthly_days(st, stride, j) ==
    IF j >= stride THEN st
    ELSE LET s1 == IF st.m >= 12
                   THEN [st EXCEPT !.m = st.m - 12, !.y = st.y + 1,
                                   !.ly = is_leapyear(st.y + 1)]
                   ELSE st
         IN generate_monthly_days(
                [s1 EXCEPT !.days = s1.days
                                      + _days_per_month_table[s1.ly + 1][s1.m + 1],
                           !.m = s1.m + 1],
                stride, j + 1)

\* the loop of generate_monthly_range, for i in range(1, periods), on
\* st = [dtindex, dow, adj, m, y, ly]; position i is Len(st.dtindex)
RECURSIVE generate_monthly_loop(_, _, _, _)
generate_monthly_loop(st, periods, stride, biz) ==
    IF Len(st.dtindex) >= periods THEN st
    ELSE LET prev == st.dtindex[Len(st.dtindex)] - st.adj
             d == generate_monthly_days(
                      [m |-> st.m, y |-> st.y, ly |-> st.ly, days |-> 0],
                      stride, 0)
             dow == IF biz # 0 THEN (st.dow + d.days) % 7 ELSE st.dow
             adj == IF biz # 0 THEN weekend_adjustment(dow, biz < 0)
                    ELSE st.adj
             t == IF biz # 0 THEN prev + d.days + adj ELSE prev + d.days
         IN generate_monthly_loop(
                [dtindex |-> Append(st.dtindex, t), dow |-> dow, adj |-> adj,
                 m |-> d.m, y |-> d.y, ly |-> d.ly],
                periods, stride, biz)

\* generate_monthly_range(start, periods, dayoffset, stride, biz); the write
\* of dtindex[0] into an array of no element raises IndexError
generate_monthly_range(start, periods, dayoffset, stride, biz) ==
    IF stride <= 0 THEN [error |-> "ValueError", dtindex |-> <<>>]
    ELSE IF periods = 0 THEN [error |-> "IndexError", dtindex |-> <<>>]
    ELSE LET ts == convert_to_tsobject(start)
             dow == ts_dayofweek(ts)
             adj == IF biz # 0 THEN weekend_adjustment(dow, biz < 0) ELSE 0
             st == generate_monthly_loop(
                       [dtindex |-> <<ts.value + dayoffset + adj>>,
                        dow |-> dow, adj |-> adj,
                        m |-> ts.dtval.month - 1, y |-> ts.dtval.year,
                        ly |-> is_leapyear(ts.dtval.year)],
                       periods, stride, biz)
         IN [error |-> "none", dtindex |-> st.dtindex]

\* the loop of generate_annual_range, on st = [dtindex, dow, adj, y]
RECURSIVE generate_annual_loop(_, _, _, _)
generate_annual_loop(st, periods, ly, biz) ==
    IF Len(st.dtindex) >= periods THEN st
    ELSE LET days == 365 + is_leapyear(st.y + ly)
             prev == st.dtindex[Len(st.dtindex)] + (days - st.adj)
             dow == IF biz # 0 THEN (st.dow + days) % 7 ELSE st.dow
             adj == IF biz # 0 THEN weekend_adjustment(dow, biz < 0)
                    ELSE st.adj
             t == IF biz # 0 THEN prev + adj ELSE prev
         IN generate_annual_loop(
                [dtindex |-> Append(st.dtindex, t), dow |-> dow, adj |-> adj,
                 y |-> st.y + 1],
                periods, ly, biz)

\* generate_annual_range(start, periods, dayoffset, biz)
generate_annual_range(start, periods, dayoffset, biz) ==
    IF periods = 0 THEN [error |-> "IndexError", dtindex |-> <<>>]
    ELSE LET ts == convert_to_tsobject(start)
             dow == ts_dayofweek(ts)
             adj == IF biz # 0 THEN weekend_adjustment(dow, biz < 0) ELSE 0
             ly == IF ts.dtval.month > 2
                      \/ (ts.dtval.month = 2 /\ ts.dtval.day = 29)
                   THEN 1 ELSE 0
             st == generate_annual_loop(
                       [dtindex |-> <<ts.value + dayoffset + adj>>,
                        dow |-> dow, adj |-> adj, y |-> ts.dtval.year],
                       periods, ly, biz)
         IN [error |-> "none", dtindex |-> st.dtindex]

\* the loop of generate_daily_range, on st = [dtindex, dow]
RECURSIVE generate_daily_loop(_, _, _, _)
generate_daily_loop(st, periods, stride, biz) ==
    IF Len(st.dtindex) >= periods THEN st
    ELSE LET next == st.dtindex[Len(st.dtindex)] + stride
             dow == (st.dow + stride) % 7
         IN generate_daily_loop(
                IF biz = 0 THEN [st EXCEPT !.dtindex = Append(st.dtindex, next)]
                ELSE IF dow = 5
                THEN [dtindex |-> Append(st.dtindex, next + 2), dow |-> 0]
                ELSE IF dow = 6
                THEN [dtindex |-> Append(st.dtindex, next + 1), dow |-> 0]
                ELSE [dtindex |-> Append(st.dtindex, next), dow |-> dow],
                periods, stride, biz)

\* generate_daily_range(start, periods, stride, biz)
generate_daily_range(start, periods, stride, biz) ==
    IF stride <= 0 THEN [error |-> "ValueError", dtindex |-> <<>>]
    ELSE IF periods = 0 THEN [error |-> "IndexError", dtindex |-> <<>>]
    ELSE LET ts == convert_to_tsobject(start)
             dow == ts_dayofweek(ts)
             adj == IF biz # 0 THEN weekend_adjustment(dow, FALSE) ELSE 0
             st == generate_daily_loop(
                       [dtindex |-> <<ts.value + adj>>,
                        dow |-> IF adj # 0 THEN 0 ELSE dow],
                       periods, stride, biz)
         IN [error |-> "none", dtindex |-> st.dtindex]

\* the inner loop of count_monthly_range, for j in range(0, stride): y += 1
\* and ly = is_leapyear(y) stand after the if, not under it
RECURSIVE count_monthly_days(_, _, _)
count_monthly_days(st, stride, j) ==
    IF j >= stride THEN st
    ELSE LET m == IF st.m >= 12 THEN st.m - 12 ELSE st.m
             y == st.y + 1
             ly == is_leapyear(y)
         IN count_monthly_days(
                [m |-> m + 1, y |-> y, ly |-> ly,
                 days |-> st.days + _days_per_month_table[ly + 1][m + 1]],
                stride, j + 1)

\* the loop of count_monthly_range, while t < e.value, on
\* st = [i, t, dow, adj, m, y, ly]
RECURSIVE count_monthly_loop(_, _, _, _)
count_monthly_loop(st, end, stride, biz) ==
    IF ~ (st.t < end) THEN st
    ELSE LET d == count_monthly_days(
                      [m |-> st.m, y |-> st.y, ly |-> st.ly, days |-> 0],
                      stride, 0)
             dow == IF biz # 0 THEN (st.dow + d.days) % 7 ELSE st.dow
             adj == IF biz # 0 THEN weekend_adjustment(dow, biz < 0)
                    ELSE st.adj
             t == IF biz # 0 THEN st.t - st.adj + d.days + adj
                  ELSE st.t - st.adj + d.days
         IN count_monthly_loop(
                [i |-> st.i + 1, t |-> t, dow |-> dow, adj |-> adj,
                 m |-> d.m, y |-> d.y, ly |-> d.ly],
                end, stride, biz)

\* count_monthly_range(start, end, dayoffset, stride, biz); end is the
\* timestamp value of the end date
count_monthly_range(start, end, dayoffset, stride, biz) ==
    IF stride <= 0 THEN [error |-> "ValueError", count |-> 0]
    ELSE LET s == convert_to_tsobject(start)
             dow == ts_dayofweek(s)
             adj == IF biz # 0 THEN weekend_adjustment(dow, biz < 0) ELSE 0
             st == count_monthly_loop(
                       [i |-> 0, t |-> s.value + dayoffset + adj,
                        dow |-> dow, adj |-> adj,
                        m |-> s.dtval.month - 1, y |-> s.dtval.year,
                        ly |-> is_leapyear(s.dtval.year)],
                       end, stride, biz)
         IN [error |-> "none", count |-> st.i]

-----------------------------------------------------------------------------
(* The state machine *)

\* the keys a, b, a, c, b, a
ExampleKeys == <<1, 2, 1, 3, 2, 1>>

KeyInputs == SeqsUpTo(ObjKeys, MaxLen) \cup {ExampleKeys}

\* no call made yet
NoCall ==
    [op |-> "none", values |-> <<>>, ngroups |-> 0, fresh |-> TRUE,
     reverse |-> EmptyDict, labels |-> <<>>, counts |-> <<>>,
     indexer |-> <<>>, uniques |-> <<>>, oob |-> FALSE, error |-> "none",
     result |-> 0, k |-> 0, ret |-> 0, take_last |-> FALSE, flags |-> <<>>]

NoTable == kh_init

\* the keys a table of each class can be given
KeysOf(kind) == IF kind = "pyobject" THEN ObjKeys ELSE Keys

\* size hints: the caller sizes the table for the keys it is going to put,
\* since no put grows it
SizeHints == {NumKeys + 1, NumKeys + 3}

\* the float64 values given to the aggregators
FloatVals == {NaN, 1, 2}

\* the float64 values of the inputs that hold infinities
InfVals == {1, PInf, NInf}

\* the group 2, 4, 4, 4, 5, 5, 7, 9
ExampleVals == <<2, 4, 4, 4, 5, 5, 7, 9>>

\* the (ngroups, values, labels) given to the aggregators: labels are in
\* [-1, ngroups); finite and NaN values under every labelling, values with
\* infinities under the labellings without -1, and the example group
AggInputs ==
    UNION {UNION {[ngroups : {ngroups},
                   values : [1..n -> FloatVals],
                   labels : [1..n -> -1..(ngroups - 1)]] :
                     n \in 0..MaxAggLen} : ngroups \in 1..MaxAggGroups}
    \cup
    UNION {UNION {[ngroups : {ngroups},
                   values : [1..n -> InfVals],
                   labels : [1..n -> 0..(ngroups - 1)]] :
                     n \in 0..MaxAggLen} : ngroups \in 1..MaxAggGroups}
    \cup {[ngroups |-> 1, values |-> ExampleVals,
           labels |-> [i \in 1..Len(ExampleVals) |-> 0]]}

\* no aggregation under way
NoAgg ==
    [ngroups |-> 0, ncalls |-> 0, op |-> "none",
     values |-> <<>>, labels |-> <<>>,
     out |-> <<>>, counts |-> <<>>, counts0 |-> <<>>,
     nobs |-> <<>>, sumx |-> <<>>, sumxx |-> <<>>]

\* the window 3, minp 2 example
ExampleRoll == <<1, NaN, 3, 5, 2>>

\* the float64 values given to roll_median
RollVals == {NaN, 1, 2}

RollInputs == SeqsUpTo(RollVals, MaxRollLen) \cup {ExampleRoll}

\* what a read past the end of arg can yield
RollGarbage == {NaN, 1}

\* roll_median not called yet
NoRoll ==
    [op |-> "none", arg |-> <<>>, win |-> 0, minp |-> 0, heights |-> <<>>,
     g |-> NaN, error |-> "none", eff |-> 0, output |-> <<>>,
     ninsert |-> 0, nremove |-> 0, nselect |-> 0, maxsize |-> 0]

\* the values put into a skip list operated on directly
SlVals == {1, 2, 3}

\* no skip list yet
NoSkl ==
    [op |-> "none", arg |-> 0, result |-> [ret |-> 0, value |-> 0],
     sl |-> skiplist_init(1), bag |-> <<>>,
     op1 |-> "none", arg1 |-> 0,
     vals1 |-> <<>>, vals2 |-> <<>>, sel1 |-> <<>>, sel2 |-> <<>>,
     printed |-> <<>>]

\* the values sl_test runs over: arr[i] = (a * i + b) % m
SlTestArrays ==
    {[i \in 1..SlTestN |-> (a * i + b) % m] : a \in {1, 3, 5}, b \in {0, 1}, m \in {4, 7}}

\* the node heights drawn during sl_test: 1 + ((c * i) % d)
SlTestHeights ==
    {[i \in 1..SlTestN |-> 1 + ((c * i) % d)] :
        c \in 1..3, d \in 1..sl_maxlevels(SlTestN)}

\* skiplist_get(sl, k) for every k in range
SelectAll(sl) == [k \in 1..sl_size(sl) |-> skiplist_get(sl, k - 1).value]

\* the sorted sequence a without one occurrence of v
RemoveOne(a, v) ==
    IF \E i \in 1..Len(a) : a[i] = v
    THEN RemoveAt(a, CHOOSE i \in 1..Len(a) : a[i] = v)
    ELSE a

\* nothing has been called yet
\* the start dates given to the range functions: the first MaxDay days of
\* every month of the years from 2011 on
StartDates ==
    [year : 2011..(2010 + MaxYears), month : 1..12, day : 1..MaxDay]

\* the dayoffset arguments: none, the day before (as the month-end
\* frequency passes), the day after
DayOffsets == {-1, 0, 1}

\* the biz arguments: previous business day, none, next business day
BizFlags == {-1, 0, 1}

\* no range generated or counted yet
NoRange ==
    [op |-> "none", start |-> [year |-> 0, month |-> 0, day |-> 0],
     end |-> 0, periods |-> 0, dayoffset |-> 0, stride |-> 0, biz |-> 0,
     error |-> "none", dtindex |-> <<>>, count |-> 0]

Idle ==
    /\ call.op = "none" /\ tkind = "none" /\ agg.ngroups = 0
    /\ roll.op = "none" /\ skl.op = "none" /\ rng.op = "none"

Init ==
    /\ call = NoCall
    /\ table = NoTable
    /\ tkind = "none"
    /\ ncalls = 0
    /\ agg = NoAgg
    /\ roll = NoRoll
    /\ skl = NoSkl
    /\ rng = NoRange

\* a caller runs group_labels(values)
GroupLabels ==
    /\ Idle
    /\ \E values \in KeyInputs, g \in Garbage :
         LET r == group_labels(values, g) IN
         call' = [NoCall EXCEPT !.op = "group_labels", !.values = values,
                                !.reverse = r.reverse, !.labels = r.labels,
                                !.counts = r.counts]
    /\ UNCHANGED <<table, tkind, ncalls, agg, roll, skl, rng>>

\* a caller runs group_labels2(values)
GroupLabels2 ==
    /\ Idle
    /\ \E values \in KeyInputs, g \in Garbage :
         LET r == group_labels2(values, g) IN
         call' = [NoCall EXCEPT !.op = "group_labels2", !.values = values,
                                !.reverse = r.reverse, !.labels = r.labels]
    /\ UNCHANGED <<table, tkind, ncalls, agg, roll, skl, rng>>

\* a caller runs groupsort_indexer(index, ngroups) on labels in [-1, ngroups)
GroupsortIndexer ==
    /\ Idle
    /\ \E ngroups \in 0..MaxGroups :
         \E index \in SeqsUpTo(-1..(ngroups - 1), MaxLen) :
            call' = [NoCall EXCEPT !.op = "groupsort_indexer",
                                   !.labels = index, !.ngroups = ngroups,
                                   !.indexer = groupsort_indexer(index, ngroups)]
    /\ UNCHANGED <<table, tkind, ncalls, agg, roll, skl, rng>>

\* the labels and counts of group_labels are handed to groupsort_indexer
\* with ngroups = len(counts)
GroupsortLabels ==
    /\ call.op = "group_labels"
    /\ call' = [call EXCEPT !.op = "group_labels+groupsort_indexer",
                            !.ngroups = Len(call.counts),
                            !.indexer = groupsort_indexer(call.labels,
                                                          Len(call.counts))]
    /\ UNCHANGED <<table, tkind, ncalls, agg, roll, skl, rng>>

\* a caller runs int64_unique(arr)
Int64Unique ==
    /\ Idle
    /\ \E arr \in SeqsUpTo(Keys, MaxLen), g \in Garbage :
         call' = [NoCall EXCEPT !.op = "int64_unique", !.values = arr,
                                !.uniques = int64_unique(arr, g)]
    /\ UNCHANGED <<table, tkind, ncalls, agg, roll, skl, rng>>

\* a caller runs duplicated(values, take_last)
Duplicated ==
    /\ Idle
    /\ \E values \in SeqsUpTo(Keys, MaxLen) \cup {ExampleKeys},
          take_last \in BOOLEAN :
         call' = [NoCall EXCEPT !.op = "duplicated", !.values = values,
                                !.take_last = take_last,
                                !.flags = duplicated(values, take_last)]
    /\ UNCHANGED <<table, tkind, ncalls, agg, roll, skl, rng>>

\* a caller constructs StringHashTable, Int64HashTable or PyObjectHashTable
NewTable ==
    /\ Idle
    /\ \E kind \in {"str", "int64", "pyobject"}, size_hint \in SizeHints :
         /\ tkind' = kind
         /\ table' = HashTable_init(size_hint)
    /\ call' = [NoCall EXCEPT !.op = "__init__"]
    /\ UNCHANGED <<ncalls, agg, roll, skl, rng>>

\* table.set_item(key, val)
SetItem ==
    /\ tkind # "none" /\ ncalls < MaxCalls
    /\ \E key \in KeysOf(tkind), val \in 0..MaxTLen :
         LET r == IF tkind = "pyobject"
                  THEN PyObjectHashTable_set_item(table, key, val)
                  ELSE HashTable_set_item(table, key, val)
         IN /\ table' = r.t
            /\ call' = [NoCall EXCEPT !.op = "set_item", !.error = r.error,
                                      !.fresh = (ncalls = 0)]
    /\ ncalls' = ncalls + 1
    /\ UNCHANGED <<tkind, agg, roll, skl, rng>>

\* table.get_item(key)
GetItem ==
    /\ tkind # "none" /\ ncalls < MaxCalls
    /\ \E key \in KeysOf(tkind) :
         \E r \in {HashTable_get_item(table, key)} :
            call' = [NoCall EXCEPT !.op = "get_item", !.values = <<key>>,
                                  !.fresh = (ncalls = 0),
                                  !.error = r.error, !.result = r.value]
    /\ ncalls' = ncalls + 1
    /\ UNCHANGED <<table, tkind, agg, roll, skl, rng>>

\* table.map_locations(values)   (Int64HashTable, PyObjectHashTable)
MapLocations ==
    /\ tkind \in {"int64", "pyobject"} /\ ncalls < MaxCalls
    /\ \E values \in SeqsUpTo(KeysOf(tkind), MaxTLen) :
         table' = HashTable_map_locations(table, values, 1)
    /\ call' = [NoCall EXCEPT !.op = "map_locations", !.fresh = (ncalls = 0)]
    /\ ncalls' = ncalls + 1
    /\ UNCHANGED <<tkind, agg, roll, skl, rng>>

\* table.factorize(values)
Factorize ==
    /\ tkind # "none" /\ ncalls < MaxCalls
    /\ \E values \in SeqsUpTo(KeysOf(tkind), MaxTLen), g \in Garbage :
         LET r == CASE tkind = "str" -> StringHashTable_factorize(table, values, g)
                    [] tkind = "int64" -> Int64HashTable_factorize(table, values, g)
                    [] OTHER -> PyObjectHashTable_factorize(table, values, g)
         IN /\ table' = r.t
            /\ call' = [NoCall EXCEPT !.op = "factorize", !.values = values,
                                      !.fresh = (ncalls = 0),
                                      !.reverse = r.reverse, !.labels = r.labels,
                                      !.counts = r.counts, !.oob = r.oob]
    /\ ncalls' = ncalls + 1
    /\ UNCHANGED <<tkind, agg, roll, skl, rng>>

\* table.unique(values)   (PyObjectHashTable)
Unique ==
    /\ tkind = "pyobject" /\ ncalls < MaxCalls
    /\ \E values \in SeqsUpTo(ObjKeys, MaxTLen) :
         LET r == PyObjectHashTable_unique(table, values) IN
         /\ table' = r.t
         /\ call' = [NoCall EXCEPT !.op = "unique", !.values = values,
                                   !.fresh = (ncalls = 0),
                                   !.uniques = r.uniques]
    /\ ncalls' = ncalls + 1
    /\ UNCHANGED <<tkind, agg, roll, skl, rng>>

\* a caller holding values and labels (labels in [-1, ngroups)) allocates
\* out and counts = np.zeros(ngroups) for the aggregators
AllocBuffers ==
    /\ Idle
    /\ \E in \in AggInputs :
            agg' = [NoAgg EXCEPT !.ngroups = in.ngroups,
                                 !.values = in.values, !.labels = in.labels,
                                 !.out = [i \in 1..in.ngroups |-> FNaN],
                                 !.counts = np_zeros(in.ngroups)]
    /\ UNCHANGED <<call, table, tkind, ncalls, roll, skl, rng>>

\* what an aggregator call r leaves in the caller's buffers
AggAfter(op, r) ==
    [agg EXCEPT !.op = op, !.ncalls = agg.ncalls + 1,
                !.counts0 = agg.counts,
                !.out = r.out, !.counts = r.counts,
                !.nobs = r.nobs, !.sumx = r.sumx, !.sumxx = r.sumxx]

\* group_add(out, counts, values, labels)
GroupAdd ==
    /\ agg.ngroups > 0 /\ agg.ncalls < MaxCalls
    /\ agg' = AggAfter("group_add",
                       group_add(agg.out, agg.counts, agg.values, agg.labels))
    /\ UNCHANGED <<call, table, tkind, ncalls, roll, skl, rng>>

\* group_mean(out, counts, values, labels)
GroupMean ==
    /\ agg.ngroups > 0 /\ agg.ncalls < MaxCalls
    /\ agg' = AggAfter("group_mean",
                       group_mean(agg.out, agg.counts, agg.values, agg.labels))
    /\ UNCHANGED <<call, table, tkind, ncalls, roll, skl, rng>>

\* group_var(out, counts, values, labels)
GroupVar ==
    /\ agg.ngroups > 0 /\ agg.ncalls < MaxCalls
    /\ agg' = AggAfter("group_var",
                       group_var(agg.out, agg.counts, agg.values, agg.labels))
    /\ UNCHANGED <<call, table, tkind, ncalls, roll, skl, rng>>

\* a caller runs roll_median(arg, win, minp)
RollMedian ==
    /\ Idle
    /\ \E arg \in RollInputs, win \in -1..MaxWin, minp \in -1..(MaxRollLen + 1) :
         \E heights \in [1..Len(arg) -> 1..sl_maxlevels(win)],
            g \in (IF win < 0 THEN RollGarbage ELSE {NaN}) :
            \E r \in {roll_median(arg, win, minp, heights, g)} :
            roll' = [op |-> "roll_median", arg |-> arg, win |-> win,
                     minp |-> minp, heights |-> heights, g |-> g,
                     error |-> r.error, eff |-> r.minp, output |-> r.output,
                     ninsert |-> r.ninsert, nremove |-> r.nremove,
                     nselect |-> r.nselect, maxsize |-> r.maxsize]
    /\ UNCHANGED <<call, table, tkind, ncalls, agg, skl, rng>>

\* a caller runs roll_median(arg, win, minp); the states of its two loops
\* are kept position by position
RollMedianRun ==
    /\ Idle
    /\ \E arg \in RollInputs, win \in -1..MaxWin, minp \in -1..(MaxRollLen + 1) :
         \E heights \in [1..Len(arg) -> 1..sl_maxlevels(win)],
            g \in (IF win < 0 THEN RollGarbage ELSE {NaN}) :
            \E r \in {roll_median_run(arg, win, minp, heights, g)} :
            roll' = [op |-> "roll_median_run", arg |-> arg, win |-> win,
                     minp |-> minp, heights |-> heights, g |-> g,
                     error |-> r.error, eff |-> r.minp, trace |-> r.trace]
    /\ UNCHANGED <<call, table, tkind, ncalls, agg, skl, rng>>

\* skiplist_init(expected_size)
SlInit ==
    /\ Idle
    /\ \E expected_size \in 1..MaxCap :
         skl' = [NoSkl EXCEPT !.op = "init", !.arg = expected_size,
                              !.sl = skiplist_init(expected_size)]
    /\ UNCHANGED <<call, table, tkind, ncalls, agg, roll, rng>>

\* what the operation op(arg) leaves of its list
SklAfter(op, arg, sl, bag, result) ==
    [skl EXCEPT !.op = op, !.arg = arg, !.result = result,
                !.sl = sl, !.bag = bag,
                !.op1 = skl.op, !.arg1 = skl.arg,
                !.vals1 = skl.sl.vals, !.vals2 = skl.vals1,
                !.sel1 = SelectAll(skl.sl), !.sel2 = skl.sel1]

\* skiplist_insert(sl, value)
SlInsert ==
    /\ skl.op \notin {"none", "sl_test"}
    /\ sl_size(skl.sl) < MaxSlSize
    /\ \E value \in SlVals, height \in 1..skl.sl.maxlevels :
         skl' = SklAfter("insert", value,
                         skiplist_insert(skl.sl, value, height),
                         np_sort(Append(skl.bag, value)), skl.result)
    /\ UNCHANGED <<call, table, tkind, ncalls, agg, roll, rng>>

\* skiplist_remove(sl, value)
SlRemove ==
    /\ skl.op \notin {"none", "sl_test"}
    /\ \E value \in SlVals :
         skl' = SklAfter("remove", value, skiplist_remove(skl.sl, value),
                         RemoveOne(skl.bag, value), skl.result)
    /\ UNCHANGED <<call, table, tkind, ncalls, agg, roll, rng>>

\* skiplist_get(sl, i, &ret)
SlGet ==
    /\ skl.op \notin {"none", "sl_test"}
    /\ \E i \in -1..MaxSlSize :
         skl' = SklAfter("get", i, skl.sl, skl.bag, skiplist_get(skl.sl, i))
    /\ UNCHANGED <<call, table, tkind, ncalls, agg, roll, rng>>

\* sl_test()
SlTest ==
    /\ Idle
    /\ \E arr \in SlTestArrays, heights \in SlTestHeights :
         skl' = [NoSkl EXCEPT !.op = "sl_test",
                              !.printed = sl_test(arr, heights).printed]
    /\ UNCHANGED <<call, table, tkind, ncalls, agg, roll, rng>>

\* the size hints of the tables operated on call by call: 1 is the default
\* of __init__ (2 buckets), 3 gives 4 buckets and 4 gives 8
TableHints == {1, 3, 4}

\* the payloads put by set_item into these tables
PutVals == {0, 1}

\* a caller constructs StringHashTable or Int64HashTable, with the default
\* size hint or with one of its own
TableNew ==
    /\ Idle
    /\ \E kind \in {"str", "int64"}, size_hint \in TableHints :
         /\ tkind' = kind
         /\ table' = HashTable_init(size_hint)
    /\ call' = [NoCall EXCEPT !.op = "__init__"]
    /\ UNCHANGED <<ncalls, agg, roll, skl, rng>>

\* table.__init__(size_hint) on a live instance: the explicit resize
TableGrow ==
    /\ tkind \in {"str", "int64"} /\ ncalls < MaxOps
    /\ \E size_hint \in TableHints :
         table' = kh_resize(table, size_hint)
    /\ call' = [NoCall EXCEPT !.op = "__init__", !.fresh = FALSE]
    /\ ncalls' = ncalls + 1
    /\ UNCHANGED <<tkind, agg, roll, skl, rng>>

\* table.set_item(key, val): the put; k and ret are what kh_put reports
TablePut ==
    /\ tkind \in {"str", "int64"} /\ ncalls < MaxOps
    /\ \E key \in Keys, val \in PutVals :
         \E r \in {HashTable_set_item(table, key, val)},
            p \in {kh_put(table, key)} :
            /\ table' = r.t
            /\ call' = [NoCall EXCEPT !.op = "set_item", !.values = <<key>>,
                                      !.error = r.error, !.fresh = FALSE,
                                      !.k = p.k, !.ret = p.ret]
    /\ ncalls' = ncalls + 1
    /\ UNCHANGED <<tkind, agg, roll, skl, rng>>

\* table.get_item(key): the get
TableGet ==
    /\ tkind \in {"str", "int64"} /\ ncalls < MaxOps
    /\ \E key \in Keys :
         \E r \in {HashTable_get_item(table, key)} :
            call' = [NoCall EXCEPT !.op = "get_item", !.values = <<key>>,
                                   !.fresh = FALSE, !.k = kh_get(table, key),
                                   !.error = r.error, !.result = r.value]
    /\ ncalls' = ncalls + 1
    /\ UNCHANGED <<table, tkind, agg, roll, skl, rng>>

\* kh_del(table, k) on a bucket k of the table: the delete
TableDel ==
    /\ tkind \in {"str", "int64"} /\ ncalls < MaxOps
    /\ \E k \in DOMAIN table.flags :
         /\ table' = kh_del(table, k)
         /\ call' = [NoCall EXCEPT !.op = "kh_del", !.fresh = FALSE, !.k = k]
    /\ ncalls' = ncalls + 1
    /\ UNCHANGED <<tkind, agg, roll, skl, rng>>

\* table.factorize(values) on a table of any size hint
TableFactorize ==
    /\ tkind \in {"str", "int64"} /\ ncalls < MaxCalls
    /\ \E values \in SeqsUpTo(Keys, MaxTLen), g \in Garbage :
         \E r \in {IF tkind = "str"
                   THEN StringHashTable_factorize(table, values, g)
                   ELSE Int64HashTable_factorize(table, values, g)} :
            /\ table' = r.t
            /\ call' = [NoCall EXCEPT !.op = "factorize", !.values = values,
                                      !.fresh = (ncalls = 0),
                                      !.reverse = r.reverse, !.labels = r.labels,
                                      !.counts = r.counts, !.oob = r.oob]
    /\ ncalls' = ncalls + 1
    /\ UNCHANGED <<tkind, agg, roll, skl, rng>>

\* a caller runs generate_daily_range(start, periods, stride, biz)
GenerateDaily ==
    /\ Idle
    /\ \E start \in StartDates, periods \in 0..MaxPeriods,
          stride \in 0..MaxStride, biz \in BizFlags :
         \E r \in {generate_daily_range(start, periods, stride, biz)} :
            rng' = [NoRange EXCEPT !.op = "generate_daily_range",
                                   !.start = start, !.periods = periods,
                                   !.stride = stride, !.biz = biz,
                                   !.error = r.error, !.dtindex = r.dtindex]
    /\ UNCHANGED <<call, table, tkind, ncalls, agg, roll, skl>>

\* a caller runs generate_monthly_range(start, periods, dayoffset, stride,
\* biz)
GenerateMonthly ==
    /\ Idle
    /\ \E start \in StartDates, periods \in 0..MaxPeriods,
          dayoffset \in DayOffsets, stride \in 0..MaxStride,
          biz \in BizFlags :
         \E r \in {generate_monthly_range(start, periods, dayoffset, stride,
                                          biz)} :
            rng' = [NoRange EXCEPT !.op = "generate_monthly_range",
                                   !.start = start, !.periods = periods,
                                   !.dayoffset = dayoffset,
                                   !.stride = stride, !.biz = biz,
                                   !.error = r.error, !.dtindex = r.dtindex]
    /\ UNCHANGED <<call, table, tkind, ncalls, agg, roll, skl>>

\* a caller runs generate_annual_range(start, periods, dayoffset, biz)
GenerateAnnual ==
    /\ Idle
    /\ \E start \in StartDates, periods \in 0..MaxPeriods,
          dayoffset \in DayOffsets, biz \in BizFlags :
         \E r \in {generate_annual_range(start, periods, dayoffset, biz)} :
            rng' = [NoRange EXCEPT !.op = "generate_annual_range",
                                   !.start = start, !.periods = periods,
                                   !.dayoffset = dayoffset, !.biz = biz,
                                   !.stride = 1,
                                   !.error = r.error, !.dtindex = r.dtindex]
    /\ UNCHANGED <<call, table, tkind, ncalls, agg, roll, skl>>

\* a caller runs count_monthly_range(start, end, ...) and
\* generate_monthly_range(start, periods, ...) with the same start,
\* dayoffset, stride and biz, as _get_freq does for its cache; end lies up
\* to MaxSpan days after start
CountMonthly ==
    /\ Idle
    /\ \E start \in StartDates, span \in 0..MaxSpan,
          periods \in 1..MaxPeriods, dayoffset \in {-1, 0},
          stride \in 1..MaxStride, biz \in BizFlags :
         \E end \in {convert_to_tsobject(start).value + span} :
         \E c \in {count_monthly_range(start, end, dayoffset, stride, biz)},
            r \in {generate_monthly_range(start, periods, dayoffset, stride,
                                          biz)} :
            rng' = [NoRange EXCEPT !.op = "count_monthly_range",
                                   !.start = start, !.end = end,
                                   !.periods = periods,
                                   !.dayoffset = dayoffset,
                                   !.stride = stride, !.biz = biz,
                                   !.error = r.error, !.dtindex = r.dtindex,
                                   !.count = c.count]
    /\ UNCHANGED <<call, table, tkind, ncalls, agg, roll, skl>>

\* table.map_locations(values)   (Int64HashTable)
TableMapLocations ==
    /\ tkind = "int64" /\ ncalls < MaxCalls
    /\ \E values \in SeqsUpTo(Keys, MaxTLen) :
         /\ table' = HashTable_map_locations(table, values, 1)
         /\ call' = [NoCall EXCEPT !.op = "map_locations", !.values = values,
                                   !.fresh = (ncalls = 0)]
    /\ ncalls' = ncalls + 1
    /\ UNCHANGED <<tkind, agg, roll, skl, rng>>

\* table.lookup_locations(values)   (Int64HashTable)
TableLookupLocations ==
    /\ tkind = "int64" /\ ncalls < MaxCalls
    /\ \E values \in SeqsUpTo(Keys, MaxQLen) :
         call' = [NoCall EXCEPT !.op = "lookup_locations", !.values = values,
                                !.fresh = (ncalls = 0),
                                !.labels = HashTable_lookup_locations(table,
                                                                      values)]
    /\ ncalls' = ncalls + 1
    /\ UNCHANGED <<table, tkind, agg, roll, skl, rng>>

\* the grouping engine: the hash tables, the factorizers, groupsort and the
\* aggregators (roll_median, the skip list and the lookups run under
\* SpecRoll, SpecSkip and SpecLookup)
Next ==
    \/ AllocBuffers
    \/ GroupAdd
    \/ GroupMean
    \/ GroupVar
    \/ GroupLabels
    \/ GroupLabels2
    \/ GroupsortIndexer
    \/ GroupsortLabels
    \/ Int64Unique
    \/ NewTable
    \/ SetItem
    \/ MapLocations
    \/ Factorize
    \/ Unique

Spec == Init /\ [][Next]_vars

\* the first method called on a freshly constructed instance
FreshFactorize == ncalls = 0 /\ Factorize

FreshUnique == ncalls = 0 /\ Unique

\* the module-level functions, and the methods factorize and unique called
\* on a freshly constructed HashTable instance
NextFresh ==
    \/ GroupLabels
    \/ GroupLabels2
    \/ GroupsortIndexer
    \/ GroupsortLabels
    \/ Int64Unique
    \/ NewTable
    \/ FreshFactorize
    \/ FreshUnique

SpecFresh == Init /\ [][NextFresh]_vars

\* the aggregators alone
NextAgg ==
    \/ AllocBuffers
    \/ GroupAdd
    \/ GroupMean
    \/ GroupVar

SpecAgg == Init /\ [][NextAgg]_vars

\* the lookups: an instance is filled by set_item and read by get_item
NextLookup ==
    \/ NewTable
    \/ SetItem
    \/ GetItem

SpecLookup == Init /\ [][NextLookup]_vars

\* one table operated on call by call: construction, put, get, delete and
\* the explicit resize
NextTable ==
    \/ TableNew
    \/ TableGrow
    \/ TablePut
    \/ TableGet
    \/ TableDel

SpecTable == Init /\ [][NextTable]_vars

\* factorize on a table of any size hint, the default included
NextSmall ==
    \/ TableNew
    \/ TableFactorize

SpecSmall == Init /\ [][NextSmall]_vars

\* the range generators and the monthly counter of datetime.pyx
NextRange ==
    \/ GenerateDaily
    \/ GenerateMonthly
    \/ GenerateAnnual
    \/ CountMonthly

SpecRange == Init /\ [][NextRange]_vars

\* the locations: an instance is filled by map_locations and read by
\* lookup_locations
NextLocate ==
    \/ TableNew
    \/ TableMapLocations
    \/ TableLookupLocations

SpecLocate == Init /\ [][NextLocate]_vars

\* duplicated alone
NextDup == Duplicated

SpecDup == Init /\ [][NextDup]_vars

\* roll_median alone
NextRoll == RollMedian

SpecRoll == Init /\ [][NextRoll]_vars

\* roll_median followed position by position
NextRun == RollMedianRun

SpecRun == Init /\ [][NextRun]_vars

\* the skip list alone
NextSkip ==
    \/ SlInit
    \/ SlInsert
    \/ SlRemove
    \/ SlGet
    \/ SlTest

SpecSkip == Init /\ [][NextSkip]_vars

-----------------------------------------------------------------------------
(* Vocabulary of the properties *)

\* the positions of values that hold a key (not missing)
Present(values) == {i \in 1..Len(values) : ~ IsMissing(values[i])}

\* the distinct non-missing keys of values
DistinctKeys(values) == {values[i] : i \in Present(values)}

\* the position where the element at i occurs first
FirstPos(values, i) ==
    CHOOSE j \in 1..i :
        values[j] = values[i] /\ \A m \in 1..(j - 1) : values[m] # values[i]

\* the number of distinct non-missing keys seen before the element at i
\* is seen first
Rank(values, i) ==
    Cardinality({values[m] : m \in Present(SubSeq(values, 1,
                                                  FirstPos(values, i) - 1))})

\* labels number the non-missing keys in order of first appearance
FirstAppearance(values, labels) ==
    /\ Len(labels) = Len(values)
    /\ \A i \in Present(values) : labels[i] = Rank(values, i)

RECURSIVE SumSeq(_)
SumSeq(a) == IF a = <<>> THEN 0 ELSE Head(a) + SumSeq(Tail(a))

\* the last call was a factorize of one of the classes in kinds
IsFactorize(kinds) == call.op = "factorize" /\ tkind \in kinds

-----------------------------------------------------------------------------
(* Factorization: C1 - C6 *)

\* C1: factorize (group_labels, group_labels2, StringHashTable.factorize,
\* Int64HashTable.factorize) assigns labels in first-appearance order: the
\* first occurrence of the k-th distinct non-missing key gets label k, every
\* later occurrence the same label, so the labels in use are exactly
\* 0..ngroups-1; keys a,b,a,c,b,a give labels 0,1,0,2,1,0, reverse
\* {0:a, 1:b, 2:c} and counts 3,2,1.
C1_FirstAppearanceLabels ==
    (call.op \in {"group_labels", "group_labels2"} \/ IsFactorize({"str", "int64"}))
    => /\ FirstAppearance(call.values, call.labels)
       /\ {call.labels[i] : i \in Present(call.values)}
              = 0..(Cardinality(DistinctKeys(call.values)) - 1)
       /\ call.values = ExampleKeys
          => /\ call.labels = <<0, 1, 0, 2, 1, 0>>
             /\ call.reverse = (0 :> 1) @@ (1 :> 2) @@ (2 :> 3)
             /\ call.op # "group_labels2" => call.counts = <<3, 2, 1>>

\* C2: in group_labels, group_labels2 and PyObjectHashTable.factorize,
\* labels[i] = -1 exactly when keys[i] is missing, and a missing key enters
\* neither the reverse map nor the table.
C2_MissingIsMinusOne ==
    (call.op \in {"group_labels", "group_labels2"} \/ IsFactorize({"pyobject"}))
    => /\ \A i \in 1..Len(call.values) :
              call.labels[i] = -1 <=> IsMissing(call.values[i])
       /\ \A l \in DOMAIN call.reverse : ~ IsMissing(call.reverse[l])
       /\ \A b \in DOMAIN table.flags :
              table.flags[b] = "live" => ~ IsMissing(table.keys[b])

C4_Counts ==
    (call.op = "group_labels" \/ IsFactorize({"int64"}))
    => /\ Len(call.counts) = Cardinality(DistinctKeys(call.values))
       /\ \A g \in 1..Len(call.counts) :
              call.counts[g] = Cardinality({i \in 1..Len(call.labels) :
                                               call.labels[i] = g - 1})
       /\ SumSeq(call.counts) = Cardinality(Present(call.values))

\* C5: factorize and unique depend on the input sequence only: called on an
\* instance that already holds keys they return what they return on a fresh
\* table.
C5_ValueInValueOut ==
    /\ call.op = "factorize"
       => \E g \in Garbage :
            LET r == HashTable_factorize(tkind # "pyobject",
                                         HashTable_init(NumKeys + 1),
                                         call.values, g)
            IN /\ call.reverse = r.reverse
               /\ call.labels = r.labels
               /\ call.counts = r.counts
    /\ call.op = "unique"
       => call.uniques = PyObjectHashTable_unique(HashTable_init(NumKeys + 1),
                                                  call.values).uniques

\* the elements of uniques are the distinct elements of values, each once
EachOnce(values, uniques) ==
    /\ {uniques[i] : i \in DOMAIN uniques} = {values[i] : i \in DOMAIN values}
    /\ \A i, j \in DOMAIN uniques : uniques[i] = uniques[j] => i = j

\* uniques is in the order in which its elements appear first in values
InFirstAppearanceOrder(values, uniques) ==
    \A i, j \in DOMAIN uniques :
        i < j => \E a \in DOMAIN values :
                    /\ values[a] = uniques[i]
                    /\ \A b \in 1..a : values[b] # uniques[j]

-----------------------------------------------------------------------------
(* groupsort_indexer: C7 - C9 *)

\* the last call ran groupsort_indexer on call.labels
IsGroupsort == call.op \in {"groupsort_indexer", "group_labels+groupsort_indexer"}

\* the labels read through the indexer
SortedLabels == [i \in 1..Len(call.indexer) |-> call.labels[call.indexer[i] + 1]]

\* C7: for every label array with values in [-1, ngroups) groupsort_indexer
\* returns a permutation of 0..n-1 through which the labels are
\* non-decreasing: equal labels form one block, blocks ascend, the block of
\* -1 comes first.
C7_SortedPermutation ==
    IsGroupsort
    => LET n == Len(call.labels) IN
       /\ Len(call.indexer) = n
       /\ {call.indexer[i] : i \in 1..n} = 0..(n - 1)
       /\ \A i \in 1..(n - 1) : SortedLabels[i] <= SortedLabels[i + 1]
       /\ \A i \in 1..n : SortedLabels[i] = -1
              => \A j \in 1..i : SortedLabels[j] = -1

\* C7 witness: groupsort_indexer has sorted labels that were out of order
\* and had a -1 after a group label.
C7_Witness ==
    /\ call.op = "groupsort_indexer"
    /\ Len(call.labels) = 4
    /\ call.labels[1] = 2 /\ call.labels[2] = 0
    /\ call.labels[3] = -1 /\ call.labels[4] = 2

\* C8: groupsort_indexer is stable: of two positions with the same label
\* the earlier one comes first in the result.
C8_Stable ==
    IsGroupsort
    => \A a, b \in 1..Len(call.indexer) :
           (a < b /\ SortedLabels[a] = SortedLabels[b])
           => call.indexer[a] < call.indexer[b]

\* C8 witness: groupsort_indexer has sorted labels in which a label occurs
\* twice with another label between the two.
C8_Witness ==
    /\ call.op = "groupsort_indexer"
    /\ Len(call.labels) = 3
    /\ call.labels[1] = 1 /\ call.labels[2] = 0 /\ call.labels[3] = 1
    /\ Len(call.indexer) = 3

\* the boundaries found by one scan of the sorted labels: the positions
\* where a range of equal labels starts
RangeStarts ==
    {i \in 1..Len(SortedLabels) : i = 1 \/ SortedLabels[i] # SortedLabels[i - 1]}

\* the size of the range that starts at s
RangeSize(s) ==
    LET later == {t \in RangeStarts : t > s} IN
    (IF later = {} THEN Len(SortedLabels) + 1
     ELSE CHOOSE t \in later : \A u \in later : t <= u) - s

\* C9 as claimed: after group_labels and groupsort_indexer one scan of the
\* permuted labels finds exactly ngroups ranges, the range of label g of
\* size counts[g], on every input, missing keys included.
C9_RoundTripRanges ==
    call.op = "group_labels+groupsort_indexer"
    => /\ Cardinality(RangeStarts) = call.ngroups
       /\ \A s \in RangeStarts :
              /\ SortedLabels[s] \in 0..(call.ngroups - 1)
              /\ RangeSize(s) = call.counts[SortedLabels[s] + 1]

\* C9 amended: the scan finds exactly ngroups ranges of labels >= 0, one per
\* label g in ascending order and of size counts[g]; when the input has
\* missing keys it finds one more range, first, of label -1, whose size is
\* the number of missing keys.
C9_RoundTripGroupRanges ==
    call.op = "group_labels+groupsort_indexer"
    => LET missing == (1..Len(call.values)) \ Present(call.values)
           groupStarts == {s \in RangeStarts : SortedLabels[s] >= 0}
       IN
       /\ call.ngroups = Len(call.counts)
       /\ Cardinality(groupStarts) = call.ngroups
       /\ \A g \in 0..(call.ngroups - 1) :
              \E s \in groupStarts :
                  /\ SortedLabels[s] = g
                  /\ RangeSize(s) = call.counts[g + 1]
       /\ \A s, t \in RangeStarts : s < t => SortedLabels[s] < SortedLabels[t]
       /\ Cardinality(RangeStarts)
              = call.ngroups + (IF missing = {} THEN 0 ELSE 1)
       /\ missing # {} => /\ SortedLabels[1] = -1
                          /\ RangeSize(1) = Cardinality(missing)

\* C9 witness: the round trip on keys with a missing key between two
\* occurrences of one key, and a second key.
C9_Witness ==
    /\ call.op = "group_labels+groupsort_indexer"
    /\ Len(call.values) = 4
    /\ call.values[1] = call.values[3]
    /\ IsMissing(call.values[2])
    /\ ~ IsMissing(call.values[4]) /\ call.values[4] # call.values[1]
    /\ call.ngroups = 2

-----------------------------------------------------------------------------
(* Aggregators: C10 *)

\* the elements of a at the positions whose label is not negative, from i on
RECURSIVE Labelled(_, _, _)
Labelled(a, labels, i) ==
    IF i > Len(a) THEN <<>>
    ELSE IF labels[i] < 0 THEN Labelled(a, labels, i + 1)
    ELSE <<a[i]>> \o Labelled(a, labels, i + 1)

\* the aggregator op applied to the caller's buffers
Aggregate(op, out, counts, values, labels) ==
    CASE op = "group_add" -> group_add(out, counts, values, labels)
      [] op = "group_mean" -> group_mean(out, counts, values, labels)
      [] OTHER -> group_var(out, counts, values, labels)

\* C10: in group_add, group_mean and group_var an observation with a
\* negative label is excluded from every group: counts, observation counts,
\* sums, sums of squares and outputs are what they are when the (value,
\* label) pairs with a negative label are absent from the input, and each
\* group's count grows by the number of positions that carry its label.
C10_NegativeLabelExcluded ==
    agg.op # "none"
    => LET r == Aggregate(agg.op, agg.out, agg.counts0,
                          Labelled(agg.values, agg.labels, 1),
                          Labelled(agg.labels, agg.labels, 1))
       IN
       /\ agg.counts = r.counts
       /\ agg.nobs = r.nobs
       /\ agg.sumx = r.sumx
       /\ agg.sumxx = r.sumxx
       /\ agg.out = r.out
       /\ \A g \in 1..agg.ngroups :
              /\ agg.counts[g] - agg.counts0[g]
                    = Cardinality({i \in 1..Len(agg.labels) : agg.labels[i] = g - 1})
              /\ agg.nobs[g]
                    = Cardinality({i \in 1..Len(agg.labels) :
                                      /\ agg.labels[i] = g - 1
                                      /\ ~ IsMissing(agg.values[i])})

\* C10 witness: group_var has run on an input whose second observation, not
\* NaN, has label -1, between two observations of the last group.
C10_Witness ==
    /\ agg.op = "group_var"
    /\ Len(agg.values) = 3
    /\ agg.labels[2] = -1 /\ ~ IsMissing(agg.values[2])
    /\ agg.labels[1] = agg.ngroups - 1 /\ agg.labels[3] = agg.ngroups - 1
    /\ ~ IsMissing(agg.values[1]) /\ ~ IsMissing(agg.values[3])

-----------------------------------------------------------------------------
(* Aggregators: C11 - C13 *)

\* the non-NaN values of the last call that carry the label of group g
\* (cells g of the arrays), from position i on
RECURSIVE Observations(_, _)
Observations(g, i) ==
    IF i > Len(agg.values) THEN <<>>
    ELSE IF agg.labels[i] = g - 1 /\ ~ IsMissing(agg.values[i])
    THEN <<agg.values[i]>> \o Observations(g, i + 1)
    ELSE Observations(g, i + 1)

\* float64 sum of xs, left to right
RECURSIVE FSum(_)
FSum(xs) ==
    IF xs = <<>> THEN 0
    ELSE f_add(FSum(SubSeq(xs, 1, Len(xs) - 1)), xs[Len(xs)])

\* the squares of xs
Squares(xs) == [i \in 1..Len(xs) |-> f_mul(xs[i], xs[i])]

\* what group_mean writes for the observations xs
MeanOf(xs) == IF xs = <<>> THEN FNaN ELSE f_div(FSum(xs), Len(xs))

C12_VarTwoMoment ==
    agg.op = "group_var"
    => /\ \A g \in 1..agg.ngroups :
            LET xs == Observations(g, 1)
                n == Len(xs)
                Sx == FSum(xs)
                Sxx == FSum(Squares(xs))
            IN agg.out[g] = IF n < 2 THEN FNaN
                            ELSE f_div(f_sub(f_mul(n, Sxx), f_mul(Sx, Sx)),
                                       n * n - n)
       /\ agg.values = ExampleVals => agg.out[1] = Float(256, 56)

\* C12 witness: group_var has run on the group 2, 4, 4, 4, 5, 5, 7, 9.
C12_Witness ==
    /\ agg.op = "group_var"
    /\ agg.values = ExampleVals
    /\ agg.nobs = <<8>>

\* C13: the counts of group_add, group_mean and group_var do not persist
\* across calls: after a call counts[g] is the number of positions of that
\* call labelled g, NaN values included, whatever calls came before.
C13_CountsOfThisCall ==
    agg.op # "none"
    => \A g \in 1..agg.ngroups :
          agg.counts[g]
             = Cardinality({i \in 1..Len(agg.labels) : agg.labels[i] = g - 1})

-----------------------------------------------------------------------------
(* roll_median: C14 - C17 *)

\* the non-NaN values among arg[lo..hi] (positions of the code, 0-based)
RECURSIVE WindowObs(_, _, _)
WindowObs(arg, lo, hi) ==
    IF lo > hi THEN <<>>
    ELSE IF IsMissing(arg[lo + 1]) THEN WindowObs(arg, lo + 1, hi)
    ELSE <<arg[lo + 1]>> \o WindowObs(arg, lo + 1, hi)

\* the median of the non-empty xs: the middle element of an odd count, the
\* mean of the two middle elements of an even count
Median(xs) ==
    LET srt == sorted(xs)
        n == Len(xs)
    IN IF n % 2 = 1 THEN Float(srt[n \div 2 + 1], 1)
       ELSE f_half(srt[n \div 2] + srt[n \div 2 + 1])

\* the threshold of the specification: a minp above win is win + 1, 0 is 1
EffectiveMinp(minp, win) ==
    IF minp > win THEN win + 1 ELSE IF minp = 0 THEN 1 ELSE minp

\* C14: roll_median emits one value per input position: for win >= 1 and
\* minp >= 0, output[i] is the median of the non-NaN values among the inputs
\* max(0, i - win + 1)..i when their number is at least the effective minp,
\* and NaN otherwise; window 3, minp 2 over 1, NaN, 3, 5, 2 gives
\* NaN, NaN, 2, 4, 3.
C14_RollingMedian ==
    (roll.op = "roll_median" /\ roll.win >= 1 /\ roll.minp >= 0)
    => /\ roll.error = "none"
       /\ Len(roll.output) = Len(roll.arg)
       /\ \A i \in 0..(Len(roll.arg) - 1) :
             LET xs == WindowObs(roll.arg, Max(0, i - roll.win + 1), i) IN
             /\ roll.output[i + 1]
                   = IF Len(xs) >= EffectiveMinp(roll.minp, roll.win)
                     THEN Median(xs) ELSE FNaN
             /\ Len(xs) >= EffectiveMinp(roll.minp, roll.win)
                   <=> Len(xs) >= roll.eff
       /\ (roll.arg = ExampleRoll /\ roll.win = 3 /\ roll.minp = 2)
          => roll.output = <<FNaN, FNaN, Float(2, 1), Float(4, 1), Float(3, 1)>>

\* C14 witness: roll_median has run over 1, NaN, 3, 5, 2 with window 3 and
\* minp 2, and the last output is 3.
C14_Witness ==
    /\ roll.op = "roll_median"
    /\ roll.arg = ExampleRoll /\ roll.win = 3 /\ roll.minp = 2
    /\ roll.output[5] = Float(3, 1)
    /\ roll.nremove = 1

\* C15: roll_median clamps minp against the window width: a minp greater
\* than win is replaced by win + 1 before any input is processed, so the
\* threshold worked with never exceeds win + 1.
C15_MinpClampedToWindow ==
    (roll.op = "roll_median" /\ roll.error = "none" /\ roll.win >= 1)
    => /\ roll.minp > roll.win => roll.eff = roll.win + 1
       /\ roll.eff <= roll.win + 1

\* C16: minp = 0 is treated as 1 (the output is that of minp = 1), and a
\* negative minp is rejected with an error before any output value is
\* produced, for every input length including 0.
C16_MinpZeroAndNegative ==
    roll.op = "roll_median"
    => /\ roll.minp = 0
          => LET r == roll_median(roll.arg, roll.win, 1, roll.heights, roll.g) IN
             /\ roll.error = "none" /\ r.error = "none"
             /\ roll.output = r.output
             /\ roll.eff = r.minp
       /\ roll.minp < 0
          => /\ roll.error = "ValueError"
             /\ roll.output = <<>>
             /\ roll.ninsert = 0 /\ roll.nremove = 0 /\ roll.nselect = 0

\* C16 witness: roll_median has run with minp 0 and window 2 over three
\* values, the first NaN, and has emitted NaN and then values.
C16_Witness ==
    /\ roll.op = "roll_median"
    /\ roll.minp = 0 /\ roll.win = 2
    /\ Len(roll.arg) = 3
    /\ IsMissing(roll.arg[1]) /\ ~ IsMissing(roll.arg[2])
    /\ roll.output[1] = FNaN /\ roll.output[2] # FNaN

\* C17: roll_median called with win <= 0 fails with an error, performs no
\* skip-list insert, remove or select and emits no output.
C17_NonPositiveWindowRejected ==
    (roll.op = "roll_median" /\ roll.win <= 0)
    => /\ roll.error # "none"
       /\ roll.ninsert = 0 /\ roll.nremove = 0 /\ roll.nselect = 0
       /\ roll.output = <<>>

-----------------------------------------------------------------------------
(* The skip list: C18, C19 *)

\* C18: after any sequence of inserts and removes, skiplist_get(k) for every
\* 0 <= k < size is the (k+1)-th smallest element of the multiset stored
\* (duplicates counted), so the results are non-decreasing in k; and in the
\* sliding window of 20 values of sl_test the list's element len/2 is
\* sorted(window)[len/2].
C18_SelectIsOrderStatistic ==
    /\ skl.op \notin {"none", "sl_test"}
       => /\ sl_size(skl.sl) = Len(skl.bag)
          /\ \A k \in 0..(Len(skl.bag) - 1) :
                skiplist_get(skl.sl, k) = [ret |-> 1, value |-> skl.bag[k + 1]]
          /\ \A k \in 1..(sl_size(skl.sl) - 1) :
                skiplist_get(skl.sl, k - 1).value <= skiplist_get(skl.sl, k).value
    /\ skl.op = "sl_test"
       => \A j \in 1..Len(skl.printed) :
             skl.printed[j].middle = skl.printed[j].actual

\* C18 witness: a list of two levels from which the smallest of three values
\* has just been removed, the two left being different.
C18_Witness ==
    /\ skl.op = "remove"
    /\ Len(skl.vals1) = 3 /\ skl.arg = skl.vals1[1]
    /\ Len(skl.bag) = 2 /\ skl.bag[1] < skl.bag[2]
    /\ \E p \in 1..sl_size(skl.sl) : skl.sl.hts[p] = 2

\* C19: insert(v) followed by remove(v) leaves the size and the stored
\* values as they were before the insert, also when v duplicates a stored
\* value, and skiplist_get(0..size-1) gives the same sequence as before.
C19_InsertRemoveRestores ==
    (skl.op = "remove" /\ skl.op1 = "insert" /\ skl.arg = skl.arg1)
    => /\ sl_size(skl.sl) = Len(skl.vals2)
       /\ skl.sl.vals = skl.vals2
       /\ SelectAll(skl.sl) = skl.sel2

\* C19 witness: a value already stored has been inserted again and then
\* removed, next to a different value.
C19_Witness ==
    /\ skl.op = "remove" /\ skl.op1 = "insert" /\ skl.arg = skl.arg1
    /\ Len(skl.vals2) = 2
    /\ skl.vals2[1] # skl.vals2[2]
    /\ \E p \in 1..2 : skl.vals2[p] = skl.arg

-----------------------------------------------------------------------------
(* HashTable lookups: C20 *)

\* no live bucket of t holds key
Absent(t, key) ==
    ~ \E b \in DOMAIN t.flags : t.flags[b] = "live" /\ t.keys[b] = key

\* C20: the lookup of an absent key: the probe kh_get returns the sentinel
\* n_buckets, get_item raises KeyError, and the table (keys, payloads, flags,
\* size, n_occupied, n_buckets) is unchanged.
C20_AbsentKeyLookup ==
    [][(call'.op = "get_item" /\ Absent(table, call'.values[1]))
       => /\ kh_get(table, call'.values[1]) = table.n_buckets
          /\ call'.error = "KeyError"
          /\ table' = table
          /\ kh_get(table', call'.values[1]) = table'.n_buckets]_vars

\* C20 witness: get_item has raised KeyError for a key whose home bucket
\* holds another key.
C20_Witness ==
    /\ call.op = "get_item" /\ call.error = "KeyError"
    /\ table.size > 0
    /\ table.flags[hash(call.values[1]) % table.n_buckets] = "live"


-----------------------------------------------------------------------------
(* The bucket array *)

\* n is a power of two
IsPow2(n) == \E e \in 0..n : 2 ^ e = n

\* the bookkeeping of the table t and its load factor
TableInv(t) ==
    /\ t.size <= t.n_occupied
    /\ t.n_occupied <= t.n_buckets
    /\ IsPow2(t.n_buckets)
    /\ t.n_occupied * LoadDen <= t.n_buckets * LoadNum

\* C21: after any sequence of put, delete and resize the table satisfies
\* size <= n_occupied <= n_buckets, n_buckets is a power of two and
\* n_occupied / n_buckets is at most the upper-bound load factor; a resize
\* that replaces the bucket array yields a strictly larger power of two.
C21_TableInvariant ==
    [][/\ tkind' # "none" => TableInv(table')
       /\ (call'.op = "__init__" /\ table'.n_buckets # table.n_buckets)
            => (table'.n_buckets > table.n_buckets
                /\ IsPow2(table'.n_buckets))]_vars

\* the buckets of t that hold key live
LiveBuckets(t, key) ==
    {b \in DOMAIN t.flags : t.flags[b] = "live" /\ t.keys[b] = key}

\* the bucket probed for key after s steps
ProbeAt(t, key, s) == (hash(key) + (s * (s + 1)) \div 2) % t.n_buckets

\* every live key of t occupies one bucket, and get finds it there
KeysReachable(t) ==
    \A key \in Keys :
       /\ Cardinality(LiveBuckets(t, key)) <= 1
       /\ \A b \in LiveBuckets(t, key) : kh_get(t, key) = b

C23_PutNeverResizes ==
    [][(tkind # "none" /\ call'.op # "__init__")
          => /\ table'.n_buckets = table.n_buckets
             /\ DOMAIN table'.flags = DOMAIN table.flags
             /\ table'.upper_bound = table.upper_bound]_vars

\* a put has inserted a key into a table that is past its upper bound, and
\* the table still has the buckets it was constructed with
C23_Witness ==
    /\ call.op = "set_item" /\ call.ret # 0
    /\ call.error = "none"
    /\ table.n_occupied > table.upper_bound
    /\ table.size = table.n_occupied
    /\ table.n_buckets = 2

\* C28: in StringHashTable.factorize and Int64HashTable.factorize the put
\* that follows a lookup miss always inserts (ret # 0), so the kh_del branch
\* leaves no deleted bucket, the bucket that receives the new label is live,
\* and a later get of any key of the input returns the label it was given.
C28_MissPutInserts ==
    call.op = "factorize" =>
       /\ \A b \in DOMAIN table.flags : table.flags[b] # "deleted"
       /\ \A i \in DOMAIN call.values :
             /\ kh_get(table, call.values[i]) # table.n_buckets
             /\ table.vals[kh_get(table, call.values[i])] = call.labels[i]

-----------------------------------------------------------------------------
(* The ranges *)

\* the day of the week of the timestamp t (1970-01-01 was a Thursday)
Weekday(t) == (t + 3) % 7

\* C24: when biz # 0, every timestamp emitted by generate_daily_range,
\* generate_monthly_range and generate_annual_range falls on a weekday
\* (Monday to Friday), for every start, dayoffset and positive stride.
C24_BusinessDaysOnly ==
    (/\ rng.op \in {"generate_daily_range", "generate_monthly_range",
                    "generate_annual_range"}
     /\ rng.biz # 0 /\ rng.error = "none")
       => \A i \in DOMAIN rng.dtindex : Weekday(rng.dtindex[i]) <= 4

\* the number of leading elements of dtindex strictly before end
LeadingBefore(dtindex, end) ==
    Cardinality({k \in DOMAIN dtindex :
                    \A i \in 1..k : dtindex[i] < end})

\* C26: count_monthly_range walks the timestamps of generate_monthly_range:
\* for the same start, dayoffset, stride and biz, the count is the number
\* of leading generated elements strictly before end (as far as periods
\* elements show it).
C26_CountWalksGenerate ==
    (rng.op = "count_monthly_range" /\ rng.error = "none")
       => LeadingBefore(rng.dtindex, rng.end)
            = (IF rng.count < rng.periods THEN rng.count ELSE rng.periods)

-----------------------------------------------------------------------------
(* The window of roll_median *)

\* the first position of the window that ends at position i
WindowLo(i, win) == IF i - win + 1 > 0 THEN i - win + 1 ELSE 0

\* C25: during roll_median the skip list holds exactly the non-NaN values
\* of the current window: after the iteration at every position i, for
\* every minp, at most win values are stored, and they are the non-NaN
\* values of arg[i - win + 1 .. i] (a value at a position <= i - win is no
\* longer stored).
C25_ListHoldsWindow ==
    (roll.op = "roll_median_run" /\ roll.error = "none")
       => \A i \in 0..(Len(roll.arg) - 1) :
             /\ sl_size(roll.trace[i + 2].sl) <= roll.win
             /\ roll.trace[i + 2].sl.vals
                  = sorted(WindowObs(roll.arg, WindowLo(i, roll.win), i))

\* the value the iteration at position i removes from the list, or NaN when
\* it removes none
Removed(i) ==
    IF i >= roll.eff - 1 /\ i > roll.win - 1
    THEN IF i - roll.win < Len(roll.arg) THEN roll.arg[i - roll.win + 1]
         ELSE roll.g
    ELSE NaN

\* C27: in roll_median nobs equals the number of values stored in the skip
\* list after every iteration, every skiplist_remove targets a value that
\* is stored, and every skiplist_get is called with an index in [0, size):
\* nobs / 2, and nobs / 2 - 1 when nobs is even.
C27_NobsIsSize ==
    (roll.op = "roll_median_run" /\ roll.error = "none")
       => \A i \in 0..(Len(roll.arg) - 1) :
             LET before == roll.trace[i + 1]
                 after == roll.trace[i + 2]
                 size == sl_size(after.sl)
             IN /\ after.nobs = size
                /\ ~ IsMissing(Removed(i))
                     => \E q \in 1..sl_size(before.sl) :
                           before.sl.vals[q] = Removed(i)
                /\ (i >= roll.eff - 1 /\ after.nobs >= roll.eff)
                     => /\ after.nobs \div 2 \in 0..(size - 1)
                        /\ after.nobs % 2 = 0
                             => (after.nobs \div 2) - 1 \in 0..(size - 1)

-----------------------------------------------------------------------------
(* The locations *)

\* the last position (0-based) of key in values, or -1 when it does not
\* occur
LastPos(values, key) ==
    IF \E j \in DOMAIN values : values[j] = key
    THEN (CHOOSE j \in DOMAIN values :
             /\ values[j] = key
             /\ \A h \in DOMAIN values : values[h] = key => h <= j) - 1
    ELSE -1

\* C29: after map_locations(values) on a fresh table, lookup_locations(q)
\* returns for every i the last position j with values[j] = q[i], and -1
\* when q[i] does not occur in values; lookup_locations does not change the
\* table.
C29_LookupLastPosition ==
    [][call'.op = "lookup_locations"
         => /\ table' = table
            /\ (call.op = "map_locations" /\ call.fresh)
                 => /\ Len(call'.labels) = Len(call'.values)
                    /\ \A i \in DOMAIN call'.values :
                          call'.labels[i]
                            = LastPos(call.values, call'.values[i])]_vars

-----------------------------------------------------------------------------
(* The duplicates *)

\* C30: duplicated marks exactly one occurrence of each distinct value as
\* not duplicated: the first occurrence when take_last is false, the last
\* when it is true; every other occurrence is marked duplicated, and the
\* output has one flag per input element.
C30_OneOccurrenceKept ==
    call.op = "duplicated" =>
       /\ Len(call.flags) = Len(call.values)
       /\ \A i \in DOMAIN call.values :
             call.flags[i] = FALSE
               <=> (IF call.take_last
                    THEN \A j \in DOMAIN call.values :
                            call.values[j] = call.values[i] => j <= i
                    ELSE \A j \in DOMAIN call.values :
                            call.values[j] = call.values[i] => j >= i)
       /\ \A v \in {call.values[j] : j \in DOMAIN call.values} :
             Cardinality({i \in DOMAIN call.values :
                             call.values[i] = v /\ ~ call.flags[i]}) = 1

\* the keys a, b, a, c, b, a with take_last: the last a, b and c are kept
C30_Witness ==
    /\ call.op = "duplicated" /\ call.take_last
    /\ call.values = ExampleKeys
    /\ call.flags = <<TRUE, TRUE, TRUE, FALSE, FALSE, FALSE>>

=============================================================================
